---- MODULE Spec2Model ----
(***************************************************************************)
(* Verification model of the recording controller:                         *)
(*   DeviceManager   (pc-app-windows/app/network/device_manager.py)        *)
(*   SessionManager  (pc-app-windows/app/session/session_manager.py)       *)
(*   FileTransferManager (pc-app/app/transfer/file_transfer_manager.py)    *)
(*   GSRHandler      (pc-app-windows/app/sensors/gsr_handler.py)           *)
(* Threads of the program (one handler per accepted connection, the        *)
(* heartbeat monitor, the transfer thread, the acquisition thread and the  *)
(* caller's thread) are interleaved at the statements that touch shared    *)
(* state; the code takes no lock anywhere.                                 *)
(***************************************************************************)
EXTENDS Integers, Sequences, FiniteSets, TLC

\* ---------------------------------------------------------------- bounds
TimeUnit == 30        \* granularity of the clock, in seconds
MaxTime == 90         \* the clock stops advancing here
MaxSent == 2          \* writes recorded per socket
MaxIssued == 3        \* highest value of device_counter
MaxAttempts == 2      \* calls of start_file_transfer in a run
MaxFileSize == 2      \* largest size a file header announces, in bytes
MaxUnits == 2         \* headers the peer sends on one transfer connection
QueueCapacity == 2    \* maxsize of data_queue, scaled down from 1000
MaxSamples == 4       \* samples the acquisition thread produces in a run
MaxBatch == 2         \* largest max_samples a reader asks for
MaxTimestamp == 10    \* largest timestamp handed to calculate_offset
MaxSendTime == 1      \* largest local send time and remote time of a ping
MaxDelay == 2         \* largest round trip of a ping, in the same unit
MaxStamp == 2         \* largest timestamp of a sync event
MaxPings == 4         \* largest num_samples of perform_ntp_like_sync
MaxMessages == 2      \* messages a device writes on its control channel
MaxEvents == 2        \* sync events of a session

\* ------------------------------------------------------- program constants
heartbeat_interval == 30
heartbeat_timeout == 60
handshake_timeout == 5

DeviceIds == {"A", "B"}
Callbacks == {"f", "g", "h"}   \* the callables the callers register
\* the connections of a run, numbered in the order they are accepted
Conns == {1, 2}
NoDevice == "none"
NoSession == -1
NoTime == -1
Backends == {"serial", "lsl", "pyshimmer"}
Modes == {"simulation"} \cup Backends
NoAddress == ""
Discovered == "COM3"
Environments == {"ok", "absent", "error"}
UnknownMode == "bluetooth"
MacAddress == "00:06:66:66:96:86"

\* messages a device may send in the steady-state loop
LoopCommands == {"heartbeat", "status_update", "unknown_command"}
\* first messages that are not a registration
BadFirstMessages == {"heartbeat", "malformed", "eof"}

Attempts == 1 .. MaxAttempts
NoAttempt == 0
FileNames == {"x.csv"}
Terminal == {"completed", "failed", "cancelled"}
\* the device_ids lists handed to start_batch_transfer
BatchLists == {<<"A", "B">>, <<"B", "A">>, <<"A">>, <<"B">>}
\* what one read of a 1024 byte header can deliver
HeaderKinds == {"file", "file_no_size", "complete", "other", "garbage", "eof"}

Min(a, b) == IF a < b THEN a ELSE b
Max(a, b) == IF a > b THEN a ELSE b

VARIABLES
  now,                  \* time.time()
  \* ---- DeviceManager
  clients,              \* device_id -> [socket, last_heartbeat]
  hpc,                  \* position of the handler thread of each connection
  hdev,                 \* local device_id of each handler
  sock_open,            \* the server side socket of the connection is open
  recv_wait,            \* seconds the pending recv() of the handler has blocked
  sent,                 \* messages written to each socket (first MaxSent)
  mon_pc,               \* position of the heartbeat monitor thread
  timed_out_devices,    \* local of _heartbeat_monitor
  monitor_sleep,        \* seconds left of the monitor's time.sleep
  last_inbound,         \* history: when the last payload of the device id arrived
  gapped,               \* history: two consecutive ones were heartbeat_timeout or more apart
  \* ---- SessionManager
  current_session_dir, session_id, session_start_time,
  connected_devices, device_counter,
  metadata,             \* the metadata.json written last
  issued,               \* history: the returns of register_device in the
                        \* session as it is now: how many, and the last name
  \* ---- FileTransferManager
  active_transfers,     \* device_id -> the record (by attempt number) stored for it
  transfers,            \* the record start_file_transfer made, per attempt
  tpc,                  \* position of the transfer thread of each attempt
  tinfo,                \* local transfer_info of the thread: the record it holds
  listener,             \* the attempt whose thread holds transfer_port, or NoAttempt
  peer_open,            \* the peer has not closed the transfer connection
  filename, file_size, received_size,   \* locals of _handle_file_transfer
  avail,                \* payload bytes of the file the peer is still going to send
  disk,                 \* bytes in <destination>/device_<id>/<filename>, -1: no file
  scenario,             \* history: what the peer of the attempt has sent
  cancel_called,        \* history: cancel_transfer has hit the record of the attempt
  notified,             \* the device and event of the last call of the callbacks
  \* ---- GSRHandler
  is_capturing,
  start_time,
  stopping,             \* the application thread is in the join of stop_gsr_capture
  start_result,         \* what start_gsr_capture returned last
  gpc,                  \* position of the capture thread
  data_queue,           \* queue.Queue(maxsize): the samples, oldest first
  total_samples,
  latest_data,          \* the sample processed last, 0: none
  data,                 \* local of _process_gsr_data: the sample in work
  produced,             \* history: samples generated so far (they are numbered)
  enqueued,             \* history: the samples that were put on the queue
  reader_left,          \* get_gsr_data_batch: iterations left, 0: no call running
  samples,              \* get_gsr_data_batch: the batch collected so far
  data_callbacks,       \* the registered callbacks, in registration order
  cb_index,             \* _process_gsr_data: items the for loop has taken
  invoked,              \* history: the callbacks called with the sample in work
  stable,               \* history: registered at the start of the for loop
                        \* and not removed since
  orphan,               \* position of a capture thread that has outlived the
                        \* join of stop_gsr_capture, "idle": there is none
  \* ---- the control channel as a byte stream
  wire,                 \* per connection: the bytes written by the device and
                        \* not yet read by the handler
  written,              \* history: the messages the device has written
  dispatched,           \* history: the ids of the messages _process_message got
  \* ---- DeviceManager.send_command_to_all, run by the application thread
  fan_pc,               \* position of the call: "idle" or "loop"
  fan_command,          \* the command being sent
  fan_keys,             \* list(self.clients.keys()) as taken at the call
  fan_todo,             \* the keys the for loop has not come to yet
  count,                \* local count
  fan_calls,            \* history: send_command calls of this fan-out, per device
  fan_written,          \* history: the devices whose sendall returned
  fan_returned,         \* the value returned last, -1: none yet
  \* ---- the application thread
  register_result,      \* what its last register_device call returned or raised
  \* ---- GSRHandler, capture modes
  available,            \* the backends whose import succeeded (SERIAL_AVAILABLE,
                        \* LSL_AVAILABLE, PYSHIMMER_AVAILABLE)
  capture_mode,
  pyshimmer_mac_address,
  mode_result,          \* what the last set_capture_mode call returned or raised
  serial_port,
  connections,          \* the backends whose connection object is set
                        \* (serial_connection, lsl_inlet, pyshimmer_device)
  capture_target,       \* the loop the capture thread was started on
  \* ---- time_sync_utils
  round_trip,           \* the last calculate_offset and convert_to_reference_time
  ntp_pc,               \* position of perform_ntp_like_sync: "idle" or "loop"
  num_samples,
  offsets,              \* local offsets
  round_trip_times,     \* local round_trip_times
  ntp_result,           \* the pair returned last
  \* ---- data_alignment_utils, on one SessionInfo
  sync_events,          \* session.sync_events
  time_offset_ms,       \* time_offset_ms of each DeviceInfo of session.devices
  aligned_to,           \* history: reference_device_id of the calculate_time_offsets
                        \* call made since the last event was added
  \* ---- FileTransferManager.start_batch_transfer, run by the application thread
  batch_todo,           \* the device_ids the for loop has not come to yet
  results,              \* local results
  \* ---- DeviceManager.start_server / stop_server, run by the application thread
  is_running,
  stop_pc,              \* position of stop_server: "idle", "loop" or "join"
  stop_size,            \* len(self.clients) when the loop over items() began
  stop_visited,         \* the device ids the loop has been through
  stop_sockets,         \* history: the sockets registered when the call began
  stop_result           \* how the last stop_server call ended

dmVars == <<clients, hpc, hdev, sock_open, recv_wait, sent, mon_pc,
            timed_out_devices, monitor_sleep, last_inbound, gapped>>
smVars == <<current_session_dir, session_id, session_start_time,
            connected_devices, device_counter, metadata, issued>>
ftVars == <<active_transfers, transfers, tpc, tinfo, listener, peer_open,
            filename, file_size, received_size, avail, disk, scenario,
            cancel_called, notified>>
gsVars == <<is_capturing, start_time, stopping, start_result, gpc, data_queue,
            total_samples, latest_data, data, produced, enqueued, reader_left,
            samples>>
fanVars == <<fan_pc, fan_command, fan_keys, fan_todo, count, fan_calls,
             fan_written, fan_returned>>
callVars == <<register_result>>
cfgVars == <<available, capture_mode, pyshimmer_mac_address, mode_result>>
devVars == <<serial_port, connections, capture_target>>
syncVars == <<round_trip, ntp_pc, num_samples, offsets, round_trip_times, ntp_result>>
alignVars == <<sync_events, time_offset_ms, aligned_to>>
utilVars == <<syncVars, alignVars>>
batchVars == <<batch_todo, results>>
stopVars == <<is_running, stop_pc, stop_size, stop_visited, stop_sockets, stop_result>>
cbVars == <<data_callbacks, cb_index, invoked, stable>>
streamVars == <<wire, written, dispatched>>
moreVars == <<cfgVars, devVars, utilVars, batchVars, stopVars, cbVars, orphan,
             streamVars>>
extVars == <<fanVars, callVars, moreVars>>
vars == <<now, dmVars, smVars, ftVars, gsVars, extVars>>

\* ------------------------------------------------------------ SessionManager

is_session_active == current_session_dir # NoSession

NoManifest ==
  [session_directory |-> NoSession, connected_devices |-> <<>>,
   session_end_time |-> NoTime, session_duration |-> NoTime]

\* _write_session_metadata: the manifest of the session as it is in memory
Manifest(dir, ended) ==
  [session_directory |-> dir,
   connected_devices |-> [d \in DOMAIN connected_devices |->
                            connected_devices[d].device_dir_name],
   session_end_time |-> IF ended THEN now ELSE NoTime,
   session_duration |-> IF ended THEN now - session_start_time ELSE NoTime]

\* start_session(): the session id is the start time formatted to the second;
\* no check that a session is active, the device map and counter are kept
start_session ==
  /\ session_id' = now
  /\ session_start_time' = now
  /\ current_session_dir' = now
  /\ metadata' = Manifest(now, FALSE)
  /\ issued' = IF session_id = now THEN issued ELSE [count |-> 0, last |-> 0]
  /\ UNCHANGED <<connected_devices, device_counter>>
  /\ UNCHANGED <<now, dmVars, ftVars, gsVars, extVars>>

\* a stop_session that leaves the device counter where it is
stop_session_keep_counter ==
  /\ metadata' = IF is_session_active
                 THEN Manifest(current_session_dir, TRUE)
                 ELSE metadata
  /\ current_session_dir' = NoSession
  /\ session_id' = NoSession
  /\ session_start_time' = NoTime
  /\ connected_devices' = <<>>
  /\ issued' = [count |-> 0, last |-> 0]
  /\ UNCHANGED device_counter
  /\ UNCHANGED <<now, dmVars, ftVars, gsVars, extVars>>

\* stop_session(): with a session active the manifest is written with the
\* end time and the duration; the in-memory state is reset in every case
stop_session ==
  /\ metadata' = IF is_session_active
                 THEN Manifest(current_session_dir, TRUE)
                 ELSE metadata
  /\ current_session_dir' = NoSession
  /\ session_id' = NoSession
  /\ session_start_time' = NoTime
  /\ connected_devices' = <<>>
  /\ device_counter' = 0
  /\ issued' = [count |-> 0, last |-> 0]
  /\ UNCHANGED <<now, dmVars, ftVars, gsVars, extVars>>

\* register_device, first half: the guard and `self.device_counter += 1`
register_device_count ==
  /\ is_session_active
  /\ device_counter < MaxIssued
  /\ device_counter' = device_counter + 1

\* a register_device that leaves a device already in the map with the name
\* it has
register_device_assign_keep(d, n) ==
  /\ connected_devices' =
       [x \in DOMAIN connected_devices \cup {d} |->
          IF x = d /\ d \notin DOMAIN connected_devices
          THEN [device_dir_name |-> n,
                device_dir_path |-> <<current_session_dir, n>>]
          ELSE connected_devices[x]]
  /\ issued' = [count |-> issued.count + 1,
                last |-> IF d \in DOMAIN connected_devices
                         THEN connected_devices[d].device_dir_name ELSE n]

\* register_device, second half: the name is formatted from the counter as
\* read now, n (device_001 is 1), the directory is made under the session
\* directory and the mapping stored
register_device_assign(d, n) ==
  /\ connected_devices' =
       [x \in DOMAIN connected_devices \cup {d} |->
          IF x = d
          THEN [device_dir_name |-> n,
                device_dir_path |-> <<current_session_dir, n>>]
          ELSE connected_devices[x]]
  /\ issued' = [count |-> issued.count + 1, last |-> n]

\* the FileRecords the store holds under device d: the entry of a device
\* has its directory name and path, registration time and device info, and
\* SessionManager has no field or method that takes a file
device_files(d) == <<>>

\* what a register_device call gives its caller
Returned(n) == [raised |-> "", name |-> n]
Raised(e) == [raised |-> e, name |-> 0]
NoOutcome == [raised |-> "", name |-> -1]

\* a register_device that counts before it looks for the session
register_device_count_first(d) ==
  /\ device_counter < MaxIssued
  /\ device_counter' = device_counter + 1
  /\ IF is_session_active
     THEN /\ register_device_assign(d, device_counter')
          /\ register_result' = Returned(device_counter')
     ELSE /\ register_result' = Raised("RuntimeError")
          /\ UNCHANGED <<connected_devices, issued>>
  /\ UNCHANGED <<current_session_dir, session_id, session_start_time, metadata>>
  /\ UNCHANGED <<now, dmVars, ftVars, gsVars, fanVars, moreVars>>

\* register_device called by the application thread, start to end: with no
\* session active RuntimeError is raised before anything is touched
register_device(d) ==
  /\ IF is_session_active
     THEN /\ register_device_count
          /\ register_device_assign(d, device_counter')
          /\ register_result' = Returned(device_counter')
     ELSE /\ register_result' = Raised("RuntimeError")
          /\ UNCHANGED <<connected_devices, device_counter, issued>>
  /\ UNCHANGED <<current_session_dir, session_id, session_start_time, metadata>>
  /\ UNCHANGED <<now, dmVars, ftVars, gsVars, fanVars, moreVars>>

\* ------------------------------------------------------------- DeviceManager

Registered == DOMAIN clients

\* socket.sendall on the socket stored for the device; only the first MaxSent
\* writes of a socket are recorded
Write(s, c, m) ==
  IF Len(s[c]) < MaxSent THEN [s EXCEPT ![c] = Append(@, m)] ELSE s

\* _send_message: False when the device is not in clients or the write raises
CanSend(d) == d \in Registered /\ sock_open[clients[d].socket]

send_message(d, m) ==
  sent' = IF CanSend(d) THEN Write(sent, clients[d].socket, m) ELSE sent

RemoveClient(cl, d) == [x \in DOMAIN cl \ {d} |-> cl[x]]

\* a payload of device d has arrived (on any of its connections, parsing or
\* not): remember a silence of heartbeat_timeout or more before it
NoteInbound(d) ==
  /\ last_inbound' = [last_inbound EXCEPT ![d] = now]
  /\ gapped' = IF last_inbound[d] # NoTime /\ now - last_inbound[d] >= heartbeat_timeout
               THEN [gapped EXCEPT ![d] = TRUE]
               ELSE gapped

\* _accept_connections: a new socket and a handler thread for it; the
\* connections are numbered in the order the accept loop takes them
accept_connection(c) ==
  /\ hpc[c] = "idle"
  /\ \A b \in Conns : b < c => hpc[b] # "idle"
  /\ hpc' = [hpc EXCEPT ![c] = "handshake"]
  /\ sock_open' = [sock_open EXCEPT ![c] = TRUE]
  /\ recv_wait' = [recv_wait EXCEPT ![c] = 0]
  /\ UNCHANGED <<clients, hdev, sent, mon_pc, timed_out_devices,
                 monitor_sleep, last_inbound, gapped>>
  /\ UNCHANGED <<now, smVars, ftVars, gsVars, extVars>>

\* a rejection that answers the peer before closing
handle_client_reject_reply(c, m) ==
  /\ hpc[c] = "handshake"
  /\ m \in BadFirstMessages
  /\ hpc' = [hpc EXCEPT ![c] = "done"]
  /\ sent' = Write(sent, c, [command |-> "error", session_active |-> FALSE])
  /\ sock_open' = [sock_open EXCEPT ![c] = FALSE]
  /\ UNCHANGED <<clients, hdev, recv_wait, mon_pc, timed_out_devices, monitor_sleep,
                 last_inbound, gapped>>
  /\ UNCHANGED <<now, smVars, ftVars, gsVars, extVars>>

\* _handle_client, first recv: anything but a well-formed register_device
\* (another command, bytes that are no JSON, zero bytes) ends the handler in
\* its finally block with device_id = None
handle_client_reject(c, m) ==
  /\ hpc[c] = "handshake"
  /\ m \in BadFirstMessages
  /\ hpc' = [hpc EXCEPT ![c] = "done"]
  /\ sock_open' = [sock_open EXCEPT ![c] = FALSE]
  /\ UNCHANGED <<clients, hdev, recv_wait, sent, mon_pc, timed_out_devices, monitor_sleep, last_inbound, gapped>>
  /\ UNCHANGED <<now, smVars, ftVars, gsVars, extVars>>

\* _handle_client, first recv times out after 5 s: same finally block
handle_client_handshake_timeout(c) ==
  /\ hpc[c] = "handshake"
  /\ recv_wait[c] >= handshake_timeout
  /\ hpc' = [hpc EXCEPT ![c] = "done"]
  /\ sock_open' = [sock_open EXCEPT ![c] = FALSE]
  /\ UNCHANGED <<clients, hdev, recv_wait, sent, mon_pc, timed_out_devices, monitor_sleep, last_inbound, gapped>>
  /\ UNCHANGED <<now, smVars, ftVars, gsVars, extVars>>

\* _handle_client, register_device received: the entry of the id is written
\* (over the entry of an earlier connection, whose socket stays open)
handle_client_register(c, d) ==
  /\ hpc[c] = "handshake"
  /\ hdev' = [hdev EXCEPT ![c] = d]
  /\ NoteInbound(d)
  /\ clients' = [x \in Registered \cup {d} |->
                   IF x = d THEN [socket |-> c, last_heartbeat |-> now]
                   ELSE clients[x]]
  /\ hpc' = [hpc EXCEPT ![c] = "sm_check"]
  /\ UNCHANGED <<sock_open, recv_wait, sent, mon_pc, timed_out_devices, monitor_sleep>>
  /\ UNCHANGED <<now, smVars, ftVars, gsVars, extVars>>

\* _handle_client: is_session_active() and the entry of register_device
handle_client_sm_check(c) ==
  /\ hpc[c] = "sm_check"
  /\ is_session_active => device_counter < MaxIssued
  /\ IF is_session_active
     THEN /\ register_device_count
          /\ hpc' = [hpc EXCEPT ![c] = "sm_assign"]
     ELSE /\ hpc' = [hpc EXCEPT ![c] = "confirm"]
          /\ UNCHANGED device_counter
  /\ UNCHANGED <<current_session_dir, session_id, session_start_time,
                 connected_devices, metadata, issued>>
  /\ UNCHANGED <<now, clients, hdev, sock_open, recv_wait, sent, mon_pc,
                 timed_out_devices, monitor_sleep, last_inbound, gapped>>
  /\ UNCHANGED <<ftVars, gsVars, extVars>>

\* _handle_client: the rest of register_device; with the session stopped
\* meanwhile the path arithmetic raises and the handler logs the error
handle_client_sm_assign(c) ==
  /\ hpc[c] = "sm_assign"
  /\ IF is_session_active
     THEN register_device_assign(hdev[c], device_counter)
     ELSE UNCHANGED <<connected_devices, issued>>
  /\ hpc' = [hpc EXCEPT ![c] = "confirm"]
  /\ UNCHANGED <<current_session_dir, session_id, session_start_time,
                 device_counter, metadata>>
  /\ UNCHANGED <<now, clients, hdev, sock_open, recv_wait, sent, mon_pc,
                 timed_out_devices, monitor_sleep, last_inbound, gapped>>
  /\ UNCHANGED <<ftVars, gsVars, extVars>>

\* _handle_client: registration_confirmed through _send_message(device_id),
\* then the steady-state loop with the long socket timeout
handle_client_confirm(c) ==
  /\ hpc[c] = "confirm"
  /\ send_message(hdev[c], [command |-> "registration_confirmed",
                            session_active |-> is_session_active])
  /\ hpc' = [hpc EXCEPT ![c] = "loop"]
  /\ recv_wait' = [recv_wait EXCEPT ![c] = 0]
  /\ UNCHANGED <<clients, hdev, sock_open, mon_pc, timed_out_devices, monitor_sleep, last_inbound, gapped>>
  /\ UNCHANGED <<now, smVars, ftVars, gsVars, extVars>>

\* the finally block of _handle_client: the entry stored under the handler's
\* device id is deleted, whichever connection wrote it; the socket is closed
handle_client_finally(c) ==
  /\ clients' = IF hdev[c] \in Registered THEN RemoveClient(clients, hdev[c]) ELSE clients
  /\ sock_open' = [sock_open EXCEPT ![c] = FALSE]
  /\ hpc' = [hpc EXCEPT ![c] = "done"]

\* _handle_client loop: a well-formed message. last_heartbeat of the entry of
\* the id is refreshed (KeyError when the entry is gone: logged, loop goes
\* on), then _process_message; a heartbeat is answered with heartbeat_response
handle_client_dispatch(c, m) ==
  /\ hpc[c] = "loop"
  /\ sock_open[c]
  /\ m \in LoopCommands
  /\ recv_wait' = [recv_wait EXCEPT ![c] = 0]
  /\ NoteInbound(hdev[c])
  /\ IF hdev[c] \in Registered
     THEN /\ clients' = [clients EXCEPT ![hdev[c]].last_heartbeat = now]
          /\ IF m = "heartbeat"
             THEN send_message(hdev[c], [command |-> "heartbeat_response",
                                         session_active |-> FALSE])
             ELSE UNCHANGED sent
     ELSE UNCHANGED <<clients, sent>>
  /\ UNCHANGED <<hpc, hdev, sock_open, mon_pc, timed_out_devices, monitor_sleep>>

\* _handle_client loop: bytes that are no JSON; json.loads raises before
\* last_heartbeat is touched, the error is logged and the loop goes on
handle_client_json_error(c) ==
  /\ hpc[c] = "loop"
  /\ sock_open[c]
  /\ recv_wait' = [recv_wait EXCEPT ![c] = 0]
  /\ NoteInbound(hdev[c])
  /\ UNCHANGED <<clients, hpc, hdev, sock_open, sent, mon_pc, timed_out_devices, monitor_sleep>>

\* a read of the loop that hands the handler one whole message
handle_client_message(c, m) ==
  /\ handle_client_dispatch(c, m)
  /\ UNCHANGED <<now, smVars, ftVars, gsVars, extVars>>

\* a handler that closes the connection on a payload that is no JSON
handle_client_malformed_closes(c) ==
  /\ hpc[c] = "loop"
  /\ sock_open[c]
  /\ NoteInbound(hdev[c])
  /\ handle_client_finally(c)
  /\ UNCHANGED <<hdev, recv_wait, sent, mon_pc, timed_out_devices, monitor_sleep>>
  /\ UNCHANGED <<now, smVars, ftVars, gsVars, extVars>>

\* a read of the loop that hands the handler bytes that are no JSON
handle_client_malformed(c) ==
  /\ handle_client_json_error(c)
  /\ UNCHANGED <<now, smVars, ftVars, gsVars, extVars>>

\* a byte of the stream: the opening and the closing brace of a JSON
\* document, and what stands between them, taken as one byte
Byte(kind, id, command) == [kind |-> kind, id |-> id, command |-> command]
Document(id, command) ==
  <<Byte("open", 0, ""), Byte("body", id, command), Byte("close", 0, "")>>

\* json.loads(data.decode("utf-8")): the message when the text is exactly
\* one JSON document, JSONDecodeError for a part of a document and for a
\* document with anything after it ("Extra data")
JSONDecodeError == Byte("error", 0, "")
json_loads(message_str) ==
  IF /\ Len(message_str) = 3
     /\ message_str[1].kind = "open"
     /\ message_str[2].kind = "body"
     /\ message_str[3].kind = "close"
  THEN message_str[2]
  ELSE JSONDecodeError

\* the device writes a well-formed message on its connection: sendall of
\* the JSON text; TCP keeps the bytes in order and keeps no boundaries
device_write(c, command) ==
  /\ hpc[c] = "loop"
  /\ sock_open[c]
  /\ written[c] < MaxMessages
  /\ written' = [written EXCEPT ![c] = @ + 1]
  /\ wire' = [wire EXCEPT ![c] = @ \o Document(written[c] + 1, command)]
  /\ UNCHANGED dispatched
  /\ UNCHANGED <<now, dmVars, smVars, ftVars, gsVars, fanVars, callVars, cfgVars,
                 devVars, utilVars, batchVars, stopVars, cbVars, orphan>>

\* _handle_client loop, one pass: client_socket.recv(4096) returns the n
\* bytes of the stream that have arrived, whatever messages they belong
\* to; the text is parsed as one document and the message dispatched, or
\* the JSONDecodeError is logged and the bytes are gone
handle_client_recv(c, n) ==
  /\ n \in 1 .. Len(wire[c])
  /\ wire' = [wire EXCEPT ![c] = SubSeq(@, n + 1, Len(@))]
  /\ LET message == json_loads(SubSeq(wire[c], 1, n))
     IN  IF message # JSONDecodeError
         THEN /\ handle_client_dispatch(c, message.command)
              /\ dispatched' = [dispatched EXCEPT ![c] = Append(@, message.id)]
         ELSE /\ handle_client_json_error(c)
              /\ UNCHANGED dispatched
  /\ UNCHANGED written
  /\ UNCHANGED <<now, smVars, ftVars, gsVars, fanVars, callVars, cfgVars,
                 devVars, utilVars, batchVars, stopVars, cbVars, orphan>>

\* _handle_client loop: recv returns zero bytes, the loop ends
handle_client_eof(c) ==
  /\ hpc[c] = "loop"
  /\ sock_open[c]
  /\ handle_client_finally(c)
  /\ UNCHANGED <<hdev, recv_wait, sent, mon_pc, timed_out_devices, monitor_sleep,
                 last_inbound, gapped>>
  /\ UNCHANGED <<now, smVars, ftVars, gsVars, extVars>>

\* _handle_client loop after stop_server: the socket has been closed under
\* the pending recv, which raises; the error is logged, the loop test finds
\* is_running False and the finally block runs
handle_client_stopped(c) ==
  /\ hpc[c] = "loop"
  /\ ~sock_open[c]
  /\ ~is_running
  /\ handle_client_finally(c)
  /\ UNCHANGED <<hdev, recv_wait, sent, mon_pc, timed_out_devices, monitor_sleep,
                 last_inbound, gapped>>
  /\ UNCHANGED <<now, smVars, ftVars, gsVars, extVars>>

\* _handle_client loop: recv times out after heartbeat_timeout. The loop ends
\* when the entry is overdue, and also when it is gone (KeyError in the
\* except clause); otherwise the next recv is issued
handle_client_timeout(c) ==
  /\ hpc[c] = "loop"
  /\ sock_open[c]
  /\ recv_wait[c] >= heartbeat_timeout
  /\ IF \/ hdev[c] \notin Registered
        \/ now - clients[hdev[c]].last_heartbeat > heartbeat_timeout
     THEN /\ handle_client_finally(c)
          /\ UNCHANGED recv_wait
     ELSE /\ recv_wait' = [recv_wait EXCEPT ![c] = 0]
          /\ UNCHANGED <<clients, sock_open, hpc>>
  /\ UNCHANGED <<hdev, sent, mon_pc, timed_out_devices, monitor_sleep,
                 last_inbound, gapped>>
  /\ UNCHANGED <<now, smVars, ftVars, gsVars, extVars>>


\* _heartbeat_monitor, start of a tick: the scan for overdue devices
heartbeat_monitor_scan ==
  /\ mon_pc = "sleep"
  /\ monitor_sleep = 0
  /\ timed_out_devices' =
       {d \in Registered : now - clients[d].last_heartbeat > heartbeat_timeout}
  /\ mon_pc' = "remove"
  /\ UNCHANGED <<clients, hpc, hdev, sock_open, recv_wait, sent, monitor_sleep, last_inbound, gapped>>
  /\ UNCHANGED <<now, smVars, ftVars, gsVars, extVars>>

\* _heartbeat_monitor, removal loop, one device: the socket stored under the
\* id now is closed and the entry deleted (nothing when the entry is gone)
heartbeat_monitor_remove(d) ==
  /\ mon_pc = "remove"
  /\ d \in timed_out_devices
  /\ timed_out_devices' = timed_out_devices \ {d}
  /\ IF d \in Registered
     THEN /\ sock_open' = [sock_open EXCEPT ![clients[d].socket] = FALSE]
          /\ clients' = RemoveClient(clients, d)
     ELSE UNCHANGED <<sock_open, clients>>
  /\ UNCHANGED <<hpc, hdev, recv_wait, sent, mon_pc, monitor_sleep, last_inbound, gapped>>
  /\ UNCHANGED <<now, smVars, ftVars, gsVars, extVars>>

\* stop_server is called: is_running is cleared and the loop over
\* self.clients.items() begins
stop_server_call ==
  /\ stop_pc = "idle"
  /\ is_running' = FALSE
  /\ stop_pc' = "loop"
  /\ stop_size' = Cardinality(Registered)
  /\ stop_visited' = {}
  /\ stop_sockets' = {clients[d].socket : d \in Registered}
  /\ stop_result' = NoOutcome
  /\ UNCHANGED <<now, dmVars, smVars, ftVars, gsVars, fanVars, callVars, cfgVars,
                 devVars, utilVars, batchVars, cbVars, orphan,
                 streamVars>>

\* stop_server, one step of the loop over self.clients.items(): the
\* iterator raises RuntimeError when the dictionary has changed size since
\* the loop began (the call ends there, nothing catches it); otherwise the
\* socket of the next entry is closed, or the loop is over
stop_server_close ==
  /\ stop_pc = "loop"
  /\ IF Cardinality(Registered) # stop_size
     THEN /\ stop_result' = Raised("RuntimeError")
          /\ stop_pc' = "idle"
          /\ UNCHANGED <<stop_visited, sock_open>>
     ELSE IF Registered \ stop_visited = {}
     THEN /\ stop_pc' = "join"
          /\ UNCHANGED <<stop_visited, stop_result, sock_open>>
     ELSE /\ \E d \in Registered \ stop_visited :
               /\ sock_open' = [sock_open EXCEPT ![clients[d].socket] = FALSE]
               /\ stop_visited' = stop_visited \cup {d}
          /\ UNCHANGED <<stop_pc, stop_result>>
  /\ UNCHANGED <<is_running, stop_size, stop_sockets>>
  /\ UNCHANGED <<clients, hpc, hdev, recv_wait, sent, mon_pc, timed_out_devices,
                 monitor_sleep, last_inbound, gapped>>
  /\ UNCHANGED <<now, smVars, ftVars, gsVars, fanVars, callVars, cfgVars, devVars,
                 utilVars, batchVars, cbVars, orphan,
                 streamVars>>

\* stop_server, after the loop: the server socket is closed, the accept and
\* heartbeat threads are joined, clients is cleared and the call returns
stop_server_return ==
  /\ stop_pc = "join"
  /\ clients' = <<>>
  /\ stop_pc' = "idle"
  /\ stop_result' = Returned(0)
  /\ UNCHANGED <<is_running, stop_size, stop_visited, stop_sockets>>
  /\ UNCHANGED <<hpc, hdev, sock_open, recv_wait, sent, mon_pc, timed_out_devices,
                 monitor_sleep, last_inbound, gapped>>
  /\ UNCHANGED <<now, smVars, ftVars, gsVars, fanVars, callVars, cfgVars, devVars,
                 utilVars, batchVars, cbVars, orphan,
                 streamVars>>

\* all the writes of one fan-out over list(self.clients.keys())
RECURSIVE SendAll(_, _, _)
SendAll(s, ds, m) ==
  IF ds = {} THEN s
  ELSE LET d == CHOOSE x \in ds : TRUE
       IN SendAll(IF CanSend(d) THEN Write(s, clients[d].socket, m) ELSE s,
                  ds \ {d}, m)

\* _heartbeat_monitor, end of a tick: a heartbeat to every device still in
\* clients, then time.sleep(heartbeat_interval)
heartbeat_monitor_send ==
  /\ mon_pc = "remove"
  /\ timed_out_devices = {}
  /\ sent' = SendAll(sent, Registered,
                     [command |-> "heartbeat", session_active |-> FALSE])
  /\ mon_pc' = "sleep"
  /\ monitor_sleep' = heartbeat_interval
  /\ UNCHANGED <<clients, hpc, hdev, sock_open, recv_wait, timed_out_devices, last_inbound, gapped>>
  /\ UNCHANGED <<now, smVars, ftVars, gsVars, extVars>>

\* send_command_to_all, entry: count = 0 and the snapshot of the keys
send_command_to_all_call(cmd) ==
  /\ fan_pc = "idle"
  /\ fan_pc' = "loop"
  /\ fan_command' = cmd
  /\ fan_keys' = Registered
  /\ fan_todo' = Registered
  /\ count' = 0
  /\ fan_calls' = [d \in DeviceIds |-> 0]
  /\ fan_written' = {}
  /\ UNCHANGED fan_returned
  /\ UNCHANGED <<now, dmVars, smVars, ftVars, gsVars, callVars, moreVars>>

\* send_command_to_all, an iteration that stops the loop at a failed send
send_command_to_all_send_abort(d, broken) ==
  /\ fan_pc = "loop"
  /\ d \in fan_todo
  /\ fan_calls' = [fan_calls EXCEPT ![d] = @ + 1]
  /\ IF CanSend(d) /\ ~broken
     THEN /\ sent' = Write(sent, clients[d].socket,
                           [command |-> fan_command, session_active |-> FALSE])
          /\ count' = count + 1
          /\ fan_written' = fan_written \cup {d}
          /\ fan_todo' = fan_todo \ {d}
     ELSE /\ fan_todo' = {}
          /\ UNCHANGED <<sent, count, fan_written>>
  /\ UNCHANGED <<fan_pc, fan_command, fan_keys, fan_returned>>
  /\ UNCHANGED <<clients, hpc, hdev, sock_open, recv_wait, mon_pc,
                 timed_out_devices, monitor_sleep, last_inbound, gapped>>
  /\ UNCHANGED <<now, smVars, ftVars, gsVars, callVars, moreVars>>

\* send_command_to_all, one iteration: send_command(device_id, ...) and so
\* _send_message. False when the device has left clients meanwhile, when its
\* socket was closed by this side, or when sendall raises because the peer
\* has reset the connection (broken); the loop goes on in every case
send_command_to_all_send(d, broken) ==
  /\ fan_pc = "loop"
  /\ d \in fan_todo
  /\ fan_todo' = fan_todo \ {d}
  /\ fan_calls' = [fan_calls EXCEPT ![d] = @ + 1]
  /\ IF CanSend(d) /\ ~broken
     THEN /\ sent' = Write(sent, clients[d].socket,
                           [command |-> fan_command, session_active |-> FALSE])
          /\ count' = count + 1
          /\ fan_written' = fan_written \cup {d}
     ELSE UNCHANGED <<sent, count, fan_written>>
  /\ UNCHANGED <<fan_pc, fan_command, fan_keys, fan_returned>>
  /\ UNCHANGED <<clients, hpc, hdev, sock_open, recv_wait, mon_pc,
                 timed_out_devices, monitor_sleep, last_inbound, gapped>>
  /\ UNCHANGED <<now, smVars, ftVars, gsVars, callVars, moreVars>>

\* send_command_to_all: the loop is through, count is returned
send_command_to_all_return ==
  /\ fan_pc = "loop"
  /\ fan_todo = {}
  /\ fan_pc' = "idle"
  /\ fan_returned' = count
  /\ UNCHANGED <<fan_command, fan_keys, fan_todo, count, fan_calls, fan_written>>
  /\ UNCHANGED <<now, dmVars, smVars, ftVars, gsVars, callVars, moreVars>>

\* ------------------------------------------------------ FileTransferManager

NoTransfer ==
  [device |-> NoDevice, status |-> "none", error |-> "",
   total_files |-> 0, transferred_files |-> 0,
   total_size |-> 0, transferred_size |-> 0]

Transferring == DOMAIN active_transfers

\* one unit of a transfer connection: a header and, after a file header,
\* the payload bytes the peer sends before it goes on or closes
Unit(h, f, n, m) == [type |-> h, filename |-> f, size |-> n, bytes |-> m]

Units ==
  {u \in {Unit("file", f, n, m) : f \in FileNames, n \in 1 .. MaxFileSize,
                                   m \in 0 .. MaxFileSize} : u.bytes <= u.size}
  \cup {Unit(h, "", 0, 0) : h \in HeaderKinds \ {"file"}}

\* the history of a connection on which nothing has arrived: headers so
\* far, whether they were whole files only and then at most one complete
\* header, how many files, the last of them, and whether complete has come
NewScenario ==
  [units |-> 0, clean |-> TRUE, files |-> 0, filename |-> "", size |-> 0,
   complete |-> FALSE]

NoScenario == [NewScenario EXCEPT !.clean = FALSE]

\* the history after the peer has sent unit u
AfterUnit(sc, u) ==
  LET whole == u.type = "file" /\ u.bytes = u.size IN
  [units |-> sc.units + 1,
   clean |-> sc.clean /\ ~sc.complete /\ (whole \/ u.type = "complete"),
   files |-> IF whole THEN sc.files + 1 ELSE sc.files,
   filename |-> IF whole THEN u.filename ELSE sc.filename,
   size |-> IF whole THEN u.size ELSE sc.size,
   complete |-> sc.complete \/ u.type = "complete"]

\* _notify_callbacks(device_id, event, ...): every callback is called
Notify(d, e) == [device |-> d, event |-> e]

\* status and error written into the record r
SetStatus(tr, r, st, e) == [tr EXCEPT ![r].status = st, ![r].error = e]

\* the except clauses of _setup_transfer_server and _transfer_files_thread:
\* the record stored under the device now, if any, is marked failed
FailCurrent(tr, d, e) ==
  IF d \in Transferring THEN SetStatus(tr, active_transfers[d], "failed", e) ELSE tr

\* and transfer_failed is notified when a record was there
NotifyFailed(d) ==
  IF d \in Transferring THEN Notify(d, "transfer_failed") ELSE notified

\* start_file_transfer, with request_device_files: the file list request is
\* written to the device (False when that fails, nothing is changed); the
\* stub answer lists no file and no byte; the record of the device is
\* replaced and a thread started
start_file_transfer_body(d) ==
  /\ \E k \in Attempts :
       /\ tpc[k] = "idle"
       /\ \A j \in Attempts : j < k => tpc[j] # "idle"
       /\ transfers' = [transfers EXCEPT ![k] =
            [NoTransfer EXCEPT !.device = d, !.status = "starting"]]
       /\ active_transfers' = [x \in Transferring \cup {d} |->
                                 IF x = d THEN k ELSE active_transfers[x]]
       /\ tpc' = [tpc EXCEPT ![k] = "begin"]
  /\ sent' = Write(sent, clients[d].socket,
                   [command |-> "get_recorded_files", session_active |-> FALSE])
  /\ notified' = Notify(d, "transfer_started")
  /\ UNCHANGED <<tinfo, listener, peer_open, filename, file_size, received_size,
                 avail, disk, scenario, cancel_called>>
  /\ UNCHANGED <<clients, hpc, hdev, sock_open, recv_wait, mon_pc,
                 timed_out_devices, monitor_sleep, last_inbound, gapped>>

\* start_file_transfer called on its own, for a device that can be written to
start_file_transfer(d) ==
  /\ CanSend(d)
  /\ start_file_transfer_body(d)
  /\ UNCHANGED <<now, smVars, gsVars, extVars>>

\* start_batch_transfer is called with a list of device ids
start_batch_transfer_call(device_ids) ==
  /\ batch_todo = <<>>
  /\ batch_todo' = device_ids
  /\ results' = <<>>
  /\ UNCHANGED <<now, dmVars, smVars, ftVars, gsVars, fanVars, callVars, cfgVars,
                 devVars, utilVars, stopVars,
                 cbVars, orphan,
                 streamVars>>

\* start_batch_transfer, one iteration: start_file_transfer for the next
\* device id, its return value kept in results
start_batch_transfer_next ==
  /\ batch_todo # <<>>
  /\ LET d == Head(batch_todo) IN
       /\ batch_todo' = Tail(batch_todo)
       /\ results' = [x \in DOMAIN results \cup {d} |->
                        IF x = d THEN CanSend(d) ELSE results[x]]
       /\ IF CanSend(d)
          THEN start_file_transfer_body(d)
          ELSE UNCHANGED <<dmVars, ftVars>>
  /\ UNCHANGED <<now, smVars, gsVars, fanVars, callVars, cfgVars, devVars, utilVars,
                 stopVars,
                 cbVars, orphan,
                 streamVars>>

\* _transfer_files_thread, first statements: the record stored under the
\* device now is taken and marked transferring (KeyError when cleanup has
\* removed it: the except clause finds no record and the thread ends)
transfer_files_thread_begin(k) ==
  /\ tpc[k] = "begin"
  /\ LET d == transfers[k].device IN
     IF d \in Transferring
     THEN /\ tinfo' = [tinfo EXCEPT ![k] = active_transfers[d]]
          /\ transfers' = [transfers EXCEPT ![active_transfers[d]].status = "transferring"]
          /\ tpc' = [tpc EXCEPT ![k] = "command"]
     ELSE /\ tpc' = [tpc EXCEPT ![k] = "done"]
          /\ UNCHANGED <<tinfo, transfers>>
  /\ UNCHANGED <<active_transfers, listener, peer_open, filename, file_size,
                 received_size, avail, disk, scenario, cancel_called, notified>>
  /\ UNCHANGED <<now, dmVars, smVars, gsVars, extVars>>

\* _transfer_files_thread: start_file_transfer is sent to the device; when
\* that fails the held record is marked failed and the thread ends
transfer_files_thread_command(k) ==
  /\ tpc[k] = "command"
  /\ LET d == transfers[k].device IN
     IF CanSend(d)
     THEN /\ sent' = Write(sent, clients[d].socket,
                           [command |-> "start_file_transfer", session_active |-> FALSE])
          /\ tpc' = [tpc EXCEPT ![k] = "bind"]
          /\ UNCHANGED <<transfers, tinfo, notified>>
     ELSE /\ transfers' = SetStatus(transfers, tinfo[k], "failed",
                                    "Failed to start transfer on device")
          /\ notified' = Notify(d, "transfer_failed")
          /\ tpc' = [tpc EXCEPT ![k] = "done"]
          /\ tinfo' = [tinfo EXCEPT ![k] = NoAttempt]
          /\ UNCHANGED sent
  /\ UNCHANGED <<active_transfers, listener, peer_open, filename, file_size,
                 received_size, avail, disk, scenario, cancel_called>>
  /\ UNCHANGED <<clients, hpc, hdev, sock_open, recv_wait, mon_pc,
                 timed_out_devices, monitor_sleep, last_inbound, gapped>>
  /\ UNCHANGED <<now, smVars, gsVars, extVars>>

\* _setup_transfer_server: bind and listen on transfer_port; the bind raises
\* while another thread listens there
setup_transfer_server_bind(k) ==
  /\ tpc[k] = "bind"
  /\ IF listener = NoAttempt
     THEN /\ listener' = k
          /\ tpc' = [tpc EXCEPT ![k] = "accept"]
          /\ UNCHANGED <<transfers, tinfo, notified>>
     ELSE /\ transfers' = FailCurrent(transfers, transfers[k].device, "Address already in use")
          /\ notified' = NotifyFailed(transfers[k].device)
          /\ tpc' = [tpc EXCEPT ![k] = "done"]
          /\ tinfo' = [tinfo EXCEPT ![k] = NoAttempt]
          /\ UNCHANGED listener
  /\ UNCHANGED <<active_transfers, peer_open, filename, file_size,
                 received_size, avail, disk, scenario, cancel_called>>
  /\ UNCHANGED <<now, dmVars, smVars, gsVars, extVars>>

\* _setup_transfer_server: a peer connects, and _handle_file_transfer takes
\* the record stored under the device now (with none stored the KeyError
\* ends the thread, no record is touched)
setup_transfer_server_accept(k) ==
  /\ tpc[k] = "accept"
  /\ LET d == transfers[k].device IN
     IF d \in Transferring
     THEN /\ tinfo' = [tinfo EXCEPT ![k] = active_transfers[d]]
          /\ tpc' = [tpc EXCEPT ![k] = "header"]
          /\ peer_open' = [peer_open EXCEPT ![k] = TRUE]
          /\ scenario' = [scenario EXCEPT ![k] = NewScenario]
          /\ UNCHANGED listener
     ELSE /\ tpc' = [tpc EXCEPT ![k] = "done"]
          /\ listener' = NoAttempt
          /\ tinfo' = [tinfo EXCEPT ![k] = NoAttempt]
          /\ UNCHANGED <<peer_open, scenario>>
  /\ UNCHANGED <<active_transfers, transfers, filename, file_size,
                 received_size, avail, disk, cancel_called, notified>>
  /\ UNCHANGED <<now, dmVars, smVars, gsVars, extVars>>

\* an accept timeout that marks the record and tells no callback
setup_transfer_server_timeout_silent(k) ==
  /\ tpc[k] = "accept"
  /\ transfers' = FailCurrent(transfers, transfers[k].device, "Transfer timeout")
  /\ listener' = NoAttempt
  /\ tpc' = [tpc EXCEPT ![k] = "done"]
  /\ tinfo' = [tinfo EXCEPT ![k] = NoAttempt]
  /\ UNCHANGED <<active_transfers, peer_open, filename, file_size,
                 received_size, avail, disk, scenario, cancel_called, notified>>
  /\ UNCHANGED <<now, dmVars, smVars, gsVars, extVars>>

\* _setup_transfer_server: nobody connects within the accept timeout (the
\* socket.timeout clause: the record stored under the device, if any, is
\* marked failed and transfer_failed notified)
setup_transfer_server_timeout(k) ==
  /\ tpc[k] = "accept"
  /\ transfers' = FailCurrent(transfers, transfers[k].device, "Transfer timeout")
  /\ notified' = NotifyFailed(transfers[k].device)
  /\ listener' = NoAttempt
  /\ tpc' = [tpc EXCEPT ![k] = "done"]
  /\ tinfo' = [tinfo EXCEPT ![k] = NoAttempt]
  /\ UNCHANGED <<active_transfers, peer_open, filename, file_size,
                 received_size, avail, disk, scenario, cancel_called>>
  /\ UNCHANGED <<now, dmVars, smVars, gsVars, extVars>>

\* _handle_file_transfer, one header read (_receive_exact of 1024 bytes):
\*   file          the file is opened for writing and the payload loop entered
\*   file_no_size  header["size"] raises, the except clause marks the held
\*                 record failed
\*   complete      the held record is marked completed, the loop ends
\*   other         a type that is neither: the next header is read
\*   garbage       json.loads raises, the loop ends, no status is written
\*   eof           the peer has closed, the read is empty: the loop ends, no
\*                 status is written
\* After a file header the peer sends u.bytes of the payload, and closes
\* when that is less than the size it announced
handle_file_transfer_header(k, u) ==
  /\ tpc[k] = "header"
  /\ u \in Units
  /\ u.type # "eof" => (peer_open[k] /\ scenario[k].units < MaxUnits)
  /\ LET h == u.type IN
     /\ scenario' = [scenario EXCEPT ![k] = AfterUnit(@, u)]
     /\ peer_open' = [peer_open EXCEPT ![k] = @ /\ h # "eof" /\ u.bytes = u.size]
     /\ IF h = "file"
        THEN /\ filename' = [filename EXCEPT ![k] = u.filename]
             /\ file_size' = [file_size EXCEPT ![k] = u.size]
             /\ received_size' = [received_size EXCEPT ![k] = 0]
             /\ avail' = [avail EXCEPT ![k] = u.bytes]
             /\ disk' = [disk EXCEPT ![transfers[k].device, u.filename] = 0]
        ELSE UNCHANGED <<filename, file_size, received_size, avail, disk>>
     /\ transfers' =
          CASE h = "complete" ->
                 SetStatus(transfers, tinfo[k], "completed", transfers[tinfo[k]].error)
            [] h = "file_no_size" -> SetStatus(transfers, tinfo[k], "failed", "KeyError")
            [] OTHER -> transfers
     /\ notified' =
          CASE h = "complete" -> Notify(transfers[k].device, "transfer_completed")
            [] h = "file_no_size" -> Notify(transfers[k].device, "transfer_failed")
            [] OTHER -> notified
     /\ tpc' = [tpc EXCEPT ![k] =
                  CASE h = "file" -> IF u.size = 0 THEN "file_done" ELSE "payload"
                    [] h = "other" -> "header"
                    [] OTHER -> "close"]
  /\ UNCHANGED <<active_transfers, tinfo, listener, cancel_called>>
  /\ UNCHANGED <<now, dmVars, smVars, gsVars, extVars>>

\* _handle_file_transfer, payload loop: recv returns c bytes (at most what is
\* missing); they are written and counted into the held record
handle_file_transfer_chunk(k, c) ==
  /\ tpc[k] = "payload"
  /\ c \in 1 .. Min(file_size[k] - received_size[k], avail[k])
  /\ disk' = [disk EXCEPT ![transfers[k].device, filename[k]] = @ + c]
  /\ received_size' = [received_size EXCEPT ![k] = @ + c]
  /\ avail' = [avail EXCEPT ![k] = @ - c]
  /\ transfers' = [transfers EXCEPT ![tinfo[k]].transferred_size = @ + c]
  /\ notified' = Notify(transfers[k].device, "transfer_progress")
  /\ tpc' = [tpc EXCEPT ![k] =
               IF received_size[k] + c = file_size[k] THEN "file_done" ELSE "payload"]
  /\ UNCHANGED <<active_transfers, tinfo, listener, peer_open, filename, file_size,
                 scenario, cancel_called>>
  /\ UNCHANGED <<now, dmVars, smVars, gsVars, extVars>>

\* _handle_file_transfer, payload loop: the peer has closed before the
\* announced size arrived, recv returns no byte and the loop is left
handle_file_transfer_short(k) ==
  /\ tpc[k] = "payload"
  /\ avail[k] = 0
  /\ tpc' = [tpc EXCEPT ![k] = "file_done"]
  /\ UNCHANGED <<active_transfers, transfers, tinfo, listener, peer_open, filename,
                 file_size, received_size, avail, disk, scenario, cancel_called, notified>>
  /\ UNCHANGED <<now, dmVars, smVars, gsVars, extVars>>

\* _handle_file_transfer, after the payload loop: a complete file is counted
\* and, with a session active, handed to session_manager.add_device_file,
\* which SessionManager does not define: the AttributeError is caught by the
\* except clause, which marks the held record failed. An incomplete file is
\* logged and the next header read
handle_file_transfer_file_done(k) ==
  /\ tpc[k] = "file_done"
  /\ IF received_size[k] = file_size[k]
     THEN IF is_session_active
          THEN /\ transfers' = [transfers EXCEPT
                    ![tinfo[k]].transferred_files = @ + 1,
                    ![tinfo[k]].status = "failed",
                    ![tinfo[k]].error = "AttributeError"]
               /\ notified' = Notify(transfers[k].device, "transfer_failed")
               /\ tpc' = [tpc EXCEPT ![k] = "close"]
          ELSE /\ transfers' = [transfers EXCEPT ![tinfo[k]].transferred_files = @ + 1]
               /\ tpc' = [tpc EXCEPT ![k] = "header"]
               /\ UNCHANGED notified
     ELSE /\ tpc' = [tpc EXCEPT ![k] = "header"]
          /\ UNCHANGED <<transfers, notified>>
  /\ UNCHANGED <<active_transfers, tinfo, listener, peer_open, filename, file_size,
                 received_size, avail, disk, scenario, cancel_called>>
  /\ UNCHANGED <<now, dmVars, smVars, gsVars, extVars>>

\* _setup_transfer_server, after _handle_file_transfer: both sockets are
\* closed and the thread ends
setup_transfer_server_close(k) ==
  /\ tpc[k] = "close"
  /\ listener' = NoAttempt
  /\ tpc' = [tpc EXCEPT ![k] = "done"]
  /\ tinfo' = [tinfo EXCEPT ![k] = NoAttempt]
  /\ peer_open' = [peer_open EXCEPT ![k] = FALSE]
  /\ filename' = [filename EXCEPT ![k] = ""]
  /\ file_size' = [file_size EXCEPT ![k] = 0]
  /\ received_size' = [received_size EXCEPT ![k] = 0]
  /\ avail' = [avail EXCEPT ![k] = 0]
  /\ scenario' = [scenario EXCEPT ![k] = NoScenario]
  /\ UNCHANGED <<active_transfers, transfers, disk, cancel_called, notified>>
  /\ UNCHANGED <<now, dmVars, smVars, gsVars, extVars>>

\* cancel_transfer: the record stored under the device is marked cancelled,
\* whatever its status (False when none is stored, nothing is changed)
cancel_transfer(d) ==
  /\ d \in Transferring
  /\ transfers' = [transfers EXCEPT ![active_transfers[d]].status = "cancelled"]
  /\ cancel_called' = [cancel_called EXCEPT ![active_transfers[d]] = TRUE]
  /\ notified' = Notify(d, "transfer_cancelled")
  /\ UNCHANGED <<active_transfers, tpc, tinfo, listener, peer_open, filename,
                 file_size, received_size, avail, disk, scenario>>
  /\ UNCHANGED <<now, dmVars, smVars, gsVars, extVars>>

\* cleanup_completed_transfers: the records in a terminal status leave the map
cleanup_completed_transfers ==
  /\ \E d \in Transferring : transfers[active_transfers[d]].status \in Terminal
  /\ active_transfers' =
       [d \in {x \in Transferring : transfers[active_transfers[x]].status \notin Terminal}
          |-> active_transfers[d]]
  /\ UNCHANGED <<transfers, tpc, tinfo, listener, peer_open, filename, file_size,
                 received_size, avail, disk, scenario, cancel_called, notified>>
  /\ UNCHANGED <<now, dmVars, smVars, gsVars, extVars>>

\* ---------------------------------------------------------------- GSRHandler


\* set_capture_mode: ValueError for a mode that is none of the four,
\* RuntimeError for a backend whose import failed, else the mode is selected
set_capture_mode(mode) ==
  /\ IF mode \notin Modes
     THEN /\ mode_result' = Raised("ValueError")
          /\ UNCHANGED capture_mode
     ELSE IF mode \in Backends /\ mode \notin available
     THEN /\ mode_result' = Raised("RuntimeError")
          /\ UNCHANGED capture_mode
     ELSE /\ capture_mode' = mode
          /\ mode_result' = Returned(0)
  /\ UNCHANGED <<available, pyshimmer_mac_address>>
  /\ UNCHANGED <<now, dmVars, smVars, ftVars, gsVars, fanVars, callVars, devVars,
                 utilVars, batchVars, stopVars,
                 cbVars, orphan,
                 streamVars>>

\* configure_pyshimmer: a mac_address that is not empty is stored
configure_pyshimmer(mac_address) ==
  /\ pyshimmer_mac_address' =
       IF mac_address # NoAddress THEN mac_address ELSE pyshimmer_mac_address
  /\ UNCHANGED <<available, capture_mode, mode_result>>
  /\ UNCHANGED <<now, dmVars, smVars, ftVars, gsVars, fanVars, callVars, devVars,
                 utilVars, batchVars, stopVars,
                 cbVars, orphan,
                 streamVars>>

\* configure_serial: a port that is not empty is stored
configure_serial(port) ==
  /\ serial_port' = IF port # NoAddress THEN port ELSE serial_port
  /\ UNCHANGED <<connections, capture_target>>
  /\ UNCHANGED <<now, dmVars, smVars, ftVars, gsVars, fanVars, callVars, cfgVars,
                 utilVars, batchVars, stopVars,
                 cbVars, orphan,
                 streamVars>>

\* a start path returns False before it sets the flag or starts a thread
start_refused ==
  /\ start_result' = "False"
  /\ UNCHANGED <<is_capturing, gpc, start_time, capture_target>>

\* the tail of every start path: the flag is set, the start time taken, the
\* capture thread started on the loop of the mode, True returned
start_thread(target, at) ==
  /\ is_capturing' = TRUE
  /\ start_time' = now
  /\ capture_target' = target
  /\ gpc' = at
  /\ start_result' = "True"

\* _start_serial_capture. env is what the machine answers: "absent", no
\* Shimmer port is discovered (or the configured one does not exist);
\* "error", serial.Serial raises; "ok", the port opens
start_serial_capture(env) ==
  IF "serial" \notin available
  THEN start_refused /\ UNCHANGED <<serial_port, connections>>
  ELSE IF serial_port = NoAddress /\ env = "absent"
  THEN start_refused /\ UNCHANGED <<serial_port, connections>>
  ELSE /\ serial_port' = IF serial_port = NoAddress THEN Discovered ELSE serial_port
       /\ IF env = "ok"
          THEN /\ connections' = connections \cup {"serial"}
               /\ start_thread("serial", "start")
          ELSE /\ start_refused
               /\ UNCHANGED connections

\* _start_lsl_capture. "absent": resolve_stream finds no stream; "error":
\* StreamInlet raises; "ok": the inlet is opened
start_lsl_capture(env) ==
  /\ IF "lsl" \in available /\ env = "ok"
     THEN /\ connections' = connections \cup {"lsl"}
          /\ start_thread("lsl", "start")
     ELSE /\ start_refused
          /\ UNCHANGED connections
  /\ UNCHANGED serial_port

\* a _start_simulation_capture whose thread sleeps one interval before its
\* first sample
start_simulation_capture_asleep ==
  /\ start_thread("simulation", "loop")
  /\ UNCHANGED <<serial_port, connections>>

\* _start_simulation_capture
start_simulation_capture ==
  /\ start_thread("simulation", "start")
  /\ UNCHANGED <<serial_port, connections>>

\* a _start_pyshimmer_capture without the test of the MAC address
start_pyshimmer_capture_any_address(env) ==
  /\ IF "pyshimmer" \notin available
     THEN start_refused /\ UNCHANGED connections
     ELSE IF env = "absent"
     THEN start_refused /\ UNCHANGED connections
     ELSE /\ connections' = connections \cup {"pyshimmer"}
          /\ IF env = "ok"
             THEN start_thread("pyshimmer", "start")
             ELSE start_refused
  /\ UNCHANGED serial_port

\* _start_pyshimmer_capture. "absent": ShimmerBluetooth(mac) raises;
\* "error": the device object is stored and its connect() raises; "ok": the
\* device is connected and configured
start_pyshimmer_capture(env) ==
  /\ IF "pyshimmer" \notin available
     THEN start_refused /\ UNCHANGED connections
     ELSE IF pyshimmer_mac_address = NoAddress
     THEN start_refused /\ UNCHANGED connections
     ELSE IF env = "absent"
     THEN start_refused /\ UNCHANGED connections
     ELSE /\ connections' = connections \cup {"pyshimmer"}
          /\ IF env = "ok"
             THEN start_thread("pyshimmer", "start")
             ELSE start_refused
  /\ UNCHANGED serial_port

\* start_gsr_capture, called by the application thread: False and nothing
\* else while capturing; otherwise the start path of the selected mode
start_gsr_capture ==
  /\ ~stopping
  /\ IF is_capturing
     THEN /\ start_result' = "False"
          /\ UNCHANGED <<is_capturing, gpc, start_time, devVars>>
     ELSE \E env \in Environments :
            CASE capture_mode = "serial" -> start_serial_capture(env)
              [] capture_mode = "lsl" -> start_lsl_capture(env)
              [] capture_mode = "pyshimmer" -> start_pyshimmer_capture(env)
              [] OTHER -> start_simulation_capture
  /\ orphan' = IF start_result' = "True" /\ gpc # "idle" THEN gpc ELSE orphan
  /\ UNCHANGED <<data_queue, total_samples, latest_data, data, produced, enqueued,
                 reader_left, samples, stopping>>
  /\ UNCHANGED <<now, dmVars, smVars, ftVars, fanVars, callVars, cfgVars, utilVars,
                 batchVars, stopVars,
                 cbVars,
                 streamVars>>

\* a stop_gsr_capture without the test of the flag
stop_gsr_capture_always ==
  /\ ~stopping
  /\ is_capturing' = FALSE
  /\ stopping' = TRUE
  /\ UNCHANGED <<gpc, data_queue, total_samples, latest_data, data, produced,
                 enqueued, reader_left, samples, start_time, start_result>>
  /\ UNCHANGED <<now, dmVars, smVars, ftVars, extVars>>

\* stop_gsr_capture, called by the application thread: nothing while not
\* capturing; otherwise the flag is cleared and the capture thread joined
stop_gsr_capture ==
  /\ ~stopping
  /\ IF is_capturing
     THEN /\ is_capturing' = FALSE
          /\ stopping' = TRUE
     ELSE UNCHANGED <<is_capturing, stopping>>
  /\ UNCHANGED <<gpc, data_queue, total_samples, latest_data, data, produced,
                 enqueued, reader_left, samples, start_time, start_result>>
  /\ UNCHANGED <<now, dmVars, smVars, ftVars, extVars>>

\* stop_gsr_capture: the capture thread has ended (it sees the flag at its
\* next loop test, one sampling interval away at most), the join returns,
\* the connections are closed and forgotten and the call returns
stop_gsr_capture_return ==
  /\ stopping
  /\ gpc = "idle"
  /\ stopping' = FALSE
  /\ connections' = {}
  /\ UNCHANGED <<serial_port, capture_target>>
  /\ UNCHANGED <<is_capturing, gpc, data_queue, total_samples, latest_data, data,
                 produced, enqueued, reader_left, samples, start_time, start_result>>
  /\ UNCHANGED <<now, dmVars, smVars, ftVars, fanVars, callVars, cfgVars, utilVars,
                 batchVars, stopVars,
                 cbVars, orphan,
                 streamVars>>

\* stop_gsr_capture: join(timeout=2.0) returns with the capture thread still
\* alive, held for longer than that in a callback it has called; the
\* connections are closed and forgotten and the call returns. One thread at
\* a time is followed after it has outlived its join
stop_gsr_capture_join_timeout ==
  /\ stopping
  /\ gpc = "callbacks"
  /\ orphan = "idle"
  /\ stopping' = FALSE
  /\ connections' = {}
  /\ UNCHANGED <<serial_port, capture_target>>
  /\ UNCHANGED <<is_capturing, gpc, data_queue, total_samples, latest_data, data,
                 produced, enqueued, reader_left, samples, start_time, start_result>>
  /\ UNCHANGED <<now, dmVars, smVars, ftVars, fanVars, callVars, cfgVars, utilVars,
                 batchVars, stopVars,
                 cbVars, orphan,
                 streamVars>>

\* the thread that outlived its join, after a new thread was started: its
\* callback returns, the for loop ends and the thread is in the sleep that
\* ends the iteration
orphan_callback_return ==
  /\ orphan = "callbacks"
  /\ orphan' = "loop"
  /\ UNCHANGED <<now, dmVars, smVars, ftVars, gsVars, fanVars, callVars, cfgVars,
                 devVars, utilVars, batchVars, stopVars, cbVars,
                 streamVars>>

\* the thread that outlived its join, at its loop test with the flag
\* cleared: it ends
orphan_capture_loop_exit ==
  /\ orphan = "loop"
  /\ ~is_capturing
  /\ orphan' = "idle"
  /\ UNCHANGED <<now, dmVars, smVars, ftVars, gsVars, fanVars, callVars, cfgVars,
                 devVars, utilVars, batchVars, stopVars, cbVars,
                 streamVars>>

\* the thread that outlived its join, at its loop test with the flag set
\* again by the start that followed: it goes on acquiring. The iteration,
\* the sample generated, counted, remembered and put on the queue in place
\* of the oldest one when the queue is full, is taken as one step
orphan_capture_loop_sample ==
  /\ orphan = "loop"
  /\ is_capturing
  /\ produced < MaxSamples
  /\ produced' = produced + 1
  /\ total_samples' = total_samples + 1
  /\ latest_data' = produced + 1
  /\ data_queue' = IF Len(data_queue) < QueueCapacity
                   THEN Append(data_queue, produced + 1)
                   ELSE Append(Tail(data_queue), produced + 1)
  /\ enqueued' = enqueued \cup {produced + 1}
  /\ UNCHANGED <<is_capturing, gpc, data, reader_left, samples, start_time,
                 stopping, start_result>>
  /\ UNCHANGED <<now, dmVars, smVars, ftVars, fanVars, callVars, moreVars>>

\* the loop test of the capture thread, whichever loop it runs, with the
\* flag cleared: the thread ends
simulation_capture_loop_exit ==
  /\ gpc \in {"start", "loop"}
  /\ ~is_capturing
  /\ gpc' = "idle"
  /\ UNCHANGED <<is_capturing, data_queue, total_samples, latest_data, data,
                 produced, enqueued, reader_left, samples>>
  /\ UNCHANGED <<start_time, stopping, start_result>>
  /\ UNCHANGED <<now, dmVars, smVars, ftVars, extVars>>

\* _simulation_capture_loop, one iteration up to the first queue operation
\* of _process_gsr_data: a sample is generated, counted and remembered. The
\* thread is at "start" before its first loop test and at "loop" in the
\* time.sleep that ends every iteration
simulation_capture_loop_sample ==
  /\ gpc \in {"start", "loop"}
  /\ capture_target = "simulation"
  /\ is_capturing
  /\ produced < MaxSamples
  /\ produced' = produced + 1
  /\ data' = produced + 1
  /\ total_samples' = total_samples + 1
  /\ latest_data' = produced + 1
  /\ gpc' = "put"
  /\ UNCHANGED <<is_capturing, data_queue, enqueued, reader_left, samples>>
  /\ UNCHANGED <<start_time, stopping, start_result>>
  /\ UNCHANGED <<now, dmVars, smVars, ftVars, extVars>>

\* _serial_capture_loop, _lsl_capture_loop, _pyshimmer_capture_loop: one
\* iteration in which the device delivers a reading, up to the first queue
\* operation of _process_gsr_data
device_capture_loop_sample ==
  /\ gpc \in {"start", "loop"}
  /\ capture_target \in Backends
  /\ is_capturing
  /\ produced < MaxSamples
  /\ produced' = produced + 1
  /\ data' = produced + 1
  /\ total_samples' = total_samples + 1
  /\ latest_data' = produced + 1
  /\ gpc' = "put"
  /\ UNCHANGED <<is_capturing, data_queue, enqueued, reader_left, samples>>
  /\ UNCHANGED <<start_time, stopping, start_result>>
  /\ UNCHANGED <<now, dmVars, smVars, ftVars, extVars>>

\* the callbacks on a list
CallbacksOf(list) == {list[k] : k \in 1 .. Len(list)}

\* add_data_callback(callback): the callback is appended (the callers
\* register a callback once)
add_data_callback(callback) ==
  /\ callback \notin CallbacksOf(data_callbacks)
  /\ data_callbacks' = Append(data_callbacks, callback)
  /\ UNCHANGED <<cb_index, invoked, stable>>
  /\ UNCHANGED <<now, dmVars, smVars, ftVars, gsVars, fanVars, callVars, cfgVars,
                 devVars, utilVars, batchVars, stopVars, orphan,
                 streamVars>>

\* list.remove: the list without the item at position i
WithoutItem(list, i) ==
  [k \in 1 .. Len(list) - 1 |-> IF k < i THEN list[k] ELSE list[k + 1]]

\* remove_data_callback(callback): the first occurrence is taken out of
\* the list, a callback that is not on it changes nothing
remove_data_callback(callback) ==
  /\ IF callback \in CallbacksOf(data_callbacks)
     THEN data_callbacks' =
            WithoutItem(data_callbacks,
                        CHOOSE i \in 1 .. Len(data_callbacks) :
                          /\ data_callbacks[i] = callback
                          /\ \A k \in 1 .. i - 1 : data_callbacks[k] # callback)
     ELSE UNCHANGED data_callbacks
  /\ stable' = stable \ {callback}
  /\ UNCHANGED <<cb_index, invoked>>
  /\ UNCHANGED <<now, dmVars, smVars, ftVars, gsVars, fanVars, callVars, cfgVars,
                 devVars, utilVars, batchVars, stopVars, orphan,
                 streamVars>>

\* _process_gsr_data, "for callback in self.data_callbacks": the iterator is
\* made and the sample goes to the callbacks; over an empty list the loop
\* ends at once and the thread is back in its capture loop
call_callbacks ==
  /\ gpc' = IF data_callbacks = <<>> THEN "loop" ELSE "callbacks"
  /\ cb_index' = 0
  /\ invoked' = <<>>
  /\ stable' = CallbacksOf(data_callbacks)

\* _process_gsr_data, one iteration of the for loop: the list iterator
\* takes the item at its index from the list as it is now, and the
\* callback is called with the sample; an exception of the callback is
\* logged by the except clause inside the loop. With the index at the end
\* of the list the loop is over
process_gsr_data_callback ==
  /\ gpc = "callbacks"
  /\ IF cb_index < Len(data_callbacks)
     THEN /\ invoked' = Append(invoked, data_callbacks[cb_index + 1])
          /\ cb_index' = cb_index + 1
          /\ UNCHANGED gpc
     ELSE /\ gpc' = "loop"
          /\ UNCHANGED <<cb_index, invoked>>
  /\ UNCHANGED <<data_callbacks, stable>>
  /\ UNCHANGED <<is_capturing, data_queue, total_samples, latest_data, data,
                 produced, enqueued, reader_left, samples>>
  /\ UNCHANGED <<start_time, stopping, start_result>>
  /\ UNCHANGED <<now, dmVars, smVars, ftVars, fanVars, callVars, cfgVars,
                 devVars, utilVars, batchVars, stopVars, orphan,
                 streamVars>>

\* _process_gsr_data: put_nowait; queue.Full leads to the except clause
process_gsr_data_put ==
  /\ gpc = "put"
  /\ IF Len(data_queue) < QueueCapacity
     THEN /\ data_queue' = Append(data_queue, data)
          /\ enqueued' = enqueued \cup {data}
          /\ call_callbacks
     ELSE /\ gpc' = "evict"
          /\ UNCHANGED <<data_queue, enqueued, cb_index, invoked, stable>>
  /\ UNCHANGED <<is_capturing, total_samples, latest_data, data, produced,
                 reader_left, samples>>
  /\ UNCHANGED <<start_time, stopping, start_result>>
  /\ UNCHANGED <<now, dmVars, smVars, ftVars, fanVars, callVars, cfgVars,
                 devVars, utilVars, batchVars, stopVars, data_callbacks, orphan,
                 streamVars>>

\* _process_gsr_data, except queue.Full: get_nowait takes the oldest sample;
\* with the queue emptied meanwhile queue.Empty is raised and passed over,
\* and the sample in work is put nowhere
process_gsr_data_evict ==
  /\ gpc = "evict"
  /\ IF data_queue # <<>>
     THEN /\ data_queue' = Tail(data_queue)
          /\ gpc' = "reput"
          /\ UNCHANGED <<cb_index, invoked, stable>>
     ELSE /\ call_callbacks
          /\ UNCHANGED data_queue
  /\ UNCHANGED <<is_capturing, total_samples, latest_data, data, produced,
                 enqueued, reader_left, samples>>
  /\ UNCHANGED <<start_time, stopping, start_result>>
  /\ UNCHANGED <<now, dmVars, smVars, ftVars, fanVars, callVars, cfgVars,
                 devVars, utilVars, batchVars, stopVars, data_callbacks, orphan,
                 streamVars>>

\* _process_gsr_data, except queue.Full: the second put_nowait (a queue.Full
\* here leaves through the outer except clause, the sample is not put)
process_gsr_data_reput ==
  /\ gpc = "reput"
  /\ IF Len(data_queue) < QueueCapacity
     THEN /\ data_queue' = Append(data_queue, data)
          /\ enqueued' = enqueued \cup {data}
          /\ call_callbacks
     ELSE /\ gpc' = "loop"
          /\ UNCHANGED <<data_queue, enqueued, cb_index, invoked, stable>>
  /\ UNCHANGED <<is_capturing, total_samples, latest_data, data, produced,
                 reader_left, samples>>
  /\ UNCHANGED <<start_time, stopping, start_result>>
  /\ UNCHANGED <<now, dmVars, smVars, ftVars, fanVars, callVars, cfgVars,
                 devVars, utilVars, batchVars, stopVars, data_callbacks, orphan,
                 streamVars>>

\* get_gsr_data_batch(max_samples), entry
get_gsr_data_batch_call(m) ==
  /\ reader_left = 0
  /\ reader_left' = m
  /\ samples' = <<>>
  /\ UNCHANGED <<is_capturing, gpc, data_queue, total_samples, latest_data, data,
                 produced, enqueued>>
  /\ UNCHANGED <<start_time, stopping, start_result>>
  /\ UNCHANGED <<now, dmVars, smVars, ftVars, extVars>>

\* get_gsr_data_batch, one iteration: get_nowait, queue.Empty ends the loop
get_gsr_data_batch_get ==
  /\ reader_left > 0
  /\ IF data_queue # <<>>
     THEN /\ samples' = Append(samples, Head(data_queue))
          /\ data_queue' = Tail(data_queue)
          /\ reader_left' = reader_left - 1
     ELSE /\ reader_left' = 0
          /\ UNCHANGED <<samples, data_queue>>
  /\ UNCHANGED <<is_capturing, gpc, total_samples, latest_data, data, produced,
                 enqueued>>
  /\ UNCHANGED <<start_time, stopping, start_result>>
  /\ UNCHANGED <<now, dmVars, smVars, ftVars, extVars>>

\* ------------------------------------------------------------ time_sync_utils

\* a calculate_offset with its operands exchanged
calculate_offset_reversed(local_timestamp, reference_timestamp) ==
  local_timestamp - reference_timestamp

calculate_offset(local_timestamp, reference_timestamp) ==
  reference_timestamp - local_timestamp

convert_to_reference_time(local_timestamp, offset) ==
  local_timestamp + offset

calculate_round_trip_time(ping_timestamp, pong_timestamp) ==
  pong_timestamp - ping_timestamp

\* an estimate that takes the whole round trip for the way out
estimate_one_way_latency_whole(round_trip_time) ==
  round_trip_time

estimate_one_way_latency(round_trip_time) ==
  round_trip_time \div 2

calculate_adjusted_offset(local_timestamp, reference_timestamp, one_way_latency) ==
  reference_timestamp - local_timestamp - one_way_latency

\* a quotient a / b of Python, kept as the pair; b = 0 stands for float('inf')
Quotient(a, b) == [num |-> a, den |-> b]
Infinity == Quotient(1, 0)
SameQuotient(q, r) == q.num * r.den = r.num * q.den

RECURSIVE SumOf(_)
SumOf(seq) == IF seq = <<>> THEN 0 ELSE Head(seq) + SumOf(Tail(seq))

RECURSIVE MinOf(_)
MinOf(seq) ==
  IF Len(seq) = 1 THEN Head(seq) ELSE Min(Head(seq), MinOf(Tail(seq)))

\* list.sort(key=lambda x: x[1]): stable, so pairs of equal round trip keep
\* the order of the exchanges
RECURSIVE InsertByRtt(_, _)
InsertByRtt(sorted, sample) ==
  IF sorted = <<>> THEN <<sample>>
  ELSE IF sorted[Len(sorted)][2] <= sample[2] THEN Append(sorted, sample)
  ELSE Append(InsertByRtt(SubSeq(sorted, 1, Len(sorted) - 1), sample),
              sorted[Len(sorted)])

RECURSIVE SortByRtt(_)
SortByRtt(seq) ==
  IF seq = <<>> THEN <<>>
  ELSE InsertByRtt(SortByRtt(SubSeq(seq, 1, Len(seq) - 1)), seq[Len(seq)])

\* a perform_ntp_like_sync that averages every sample
ntp_like_result_of_all(offs, rtts) ==
  LET valid_samples == SortByRtt([i \in 1 .. Len(offs) |-> <<offs[i], rtts[i]>>])
  IN  IF valid_samples # <<>>
      THEN LET best_samples == valid_samples
           IN  [final_offset |->
                  Quotient(SumOf([i \in 1 .. Len(best_samples) |-> best_samples[i][1]]),
                           Len(best_samples)),
                error_margin |->
                  Quotient(MinOf([i \in 1 .. Len(best_samples) |-> best_samples[i][2]]), 2)]
      ELSE [final_offset |-> Quotient(0, 1), error_margin |-> Infinity]

\* the tail of perform_ntp_like_sync: the samples sorted by round trip, the
\* better half averaged
ntp_like_result(offs, rtts) ==
  LET valid_samples == SortByRtt([i \in 1 .. Len(offs) |-> <<offs[i], rtts[i]>>])
  IN  IF valid_samples # <<>>
      THEN LET best_samples ==
                 SubSeq(valid_samples, 1, Max(1, Len(valid_samples) \div 2))
           IN  [final_offset |->
                  Quotient(SumOf([i \in 1 .. Len(best_samples) |-> best_samples[i][1]]),
                           Len(best_samples)),
                error_margin |->
                  Quotient(MinOf([i \in 1 .. Len(best_samples) |-> best_samples[i][2]]), 2)]
      ELSE [final_offset |-> Quotient(0, 1), error_margin |-> Infinity]

NoResult == [final_offset |-> Quotient(0, 0), error_margin |-> Quotient(0, 0)]
NoRoundTrip == [local |-> NoTime, reference |-> NoTime, offset |-> 0, converted |-> NoTime]

\* a caller takes the offset of a local timestamp to a reference timestamp
\* and converts the local timestamp with it
synchronise_timestamp(local_timestamp, reference_timestamp) ==
  /\ round_trip' =
       [local |-> local_timestamp,
        reference |-> reference_timestamp,
        offset |-> calculate_offset(local_timestamp, reference_timestamp),
        converted |-> convert_to_reference_time(
                        local_timestamp,
                        calculate_offset(local_timestamp, reference_timestamp))]
  /\ UNCHANGED <<ntp_pc, num_samples, offsets, round_trip_times, ntp_result>>
  /\ UNCHANGED <<now, dmVars, smVars, ftVars, gsVars, fanVars, callVars, cfgVars,
                 devVars, alignVars, batchVars, stopVars,
                 cbVars, orphan,
                 streamVars>>

\* perform_ntp_like_sync is called
perform_ntp_like_sync_call(n) ==
  /\ ntp_pc = "idle"
  /\ ntp_pc' = "loop"
  /\ num_samples' = n
  /\ offsets' = <<>>
  /\ round_trip_times' = <<>>
  /\ ntp_result' = NoResult
  /\ UNCHANGED round_trip
  /\ UNCHANGED <<now, dmVars, smVars, ftVars, gsVars, fanVars, callVars, cfgVars,
                 devVars, alignVars, batchVars, stopVars,
                 cbVars, orphan,
                 streamVars>>

\* one exchange: ping_func returns local_send_time, pong_handler returns
\* local_receive_time and remote_time
perform_ntp_like_sync_sample(local_send_time, local_receive_time, remote_time) ==
  /\ ntp_pc = "loop"
  /\ Len(offsets) < num_samples
  /\ LET rtt == calculate_round_trip_time(local_send_time, local_receive_time)
         one_way == estimate_one_way_latency(rtt)
     IN  /\ round_trip_times' = Append(round_trip_times, rtt)
         /\ offsets' = Append(offsets,
                calculate_adjusted_offset(local_send_time + one_way, remote_time, 0))
  /\ UNCHANGED <<round_trip, ntp_pc, num_samples, ntp_result>>
  /\ UNCHANGED <<now, dmVars, smVars, ftVars, gsVars, fanVars, callVars, cfgVars,
                 devVars, alignVars, batchVars, stopVars,
                 cbVars, orphan,
                 streamVars>>

\* the loop is over: the result is computed and returned
perform_ntp_like_sync_return ==
  /\ ntp_pc = "loop"
  /\ Len(offsets) = num_samples
  /\ ntp_result' = ntp_like_result(offsets, round_trip_times)
  /\ ntp_pc' = "idle"
  /\ UNCHANGED <<round_trip, num_samples, offsets, round_trip_times>>
  /\ UNCHANGED <<now, dmVars, smVars, ftVars, gsVars, fanVars, callVars, cfgVars,
                 devVars, alignVars, batchVars, stopVars,
                 cbVars, orphan,
                 streamVars>>

InitTimeSync ==
  /\ round_trip = NoRoundTrip
  /\ ntp_pc = "idle"
  /\ num_samples = 0
  /\ offsets = <<>>
  /\ round_trip_times = <<>>
  /\ ntp_result = NoResult

\* ------------------------------------------------------ data_alignment_utils

\* session.devices: the DeviceInfo objects by device_id, in list order
SessionDevices == <<"pc", "phone">>
\* a device id that session.devices does not hold
AbsentDevice == "tablet"
NoReference == ""

\* SyncEvent.type is a free string and the only place where an event can
\* name a device. A type is kept as the label it starts with and the device
\* ids that occur in it: "start" is [label |-> "start", ids |-> {}],
\* "start_pc" is [label |-> "start", ids |-> {"pc"}]. Two types are the same
\* string exactly when the records are equal, and
\* `device_id in event.type` is membership in ids (no device id is part of
\* a label or of another id)
EventLabels == {"start", "marker"}
EventTypes == [label : EventLabels, ids : SUBSET {"pc", "phone"}]
TypeString(label) == [label |-> label, ids |-> {}]

\* events_by_type[event_type]
EventsOfType(event_type) ==
  SelectSeq(sync_events, LAMBDA event : event.type = event_type)

\* the keys of events_by_type
TypesPresent == {sync_events[i].type : i \in 1 .. Len(sync_events)}

\* find_event_time_for_device: the timestamp of the first event of the list
\* whose type contains device_id, -1 when there is none
find_event_time_for_device(events, device_id) ==
  LET hits == {i \in 1 .. Len(events) : device_id \in events[i].type.ids}
  IN  IF hits = {} THEN -1
      ELSE events[CHOOSE i \in hits : \A k \in hits : i <= k].timestamp

\* the reference device: the one of the given id, else the first of the list
ReferenceDevice(reference_device_id) ==
  IF \E i \in 1 .. Len(SessionDevices) : SessionDevices[i] = reference_device_id
  THEN reference_device_id
  ELSE SessionDevices[1]

\* total_offset of calculate_time_offsets: the differences of the event types
\* in which both the reference id and the device id are found
RECURSIVE TotalOffset(_, _, _)
TotalOffset(event_types, device_id, reference_device_id) ==
  IF event_types = {} THEN 0
  ELSE LET event_type == CHOOSE t \in event_types : TRUE
       IN  (find_event_time_for_device(EventsOfType(event_type), reference_device_id)
              - find_event_time_for_device(EventsOfType(event_type), device_id))
           + TotalOffset(event_types \ {event_type}, device_id, reference_device_id)

\* the body of the device loop of calculate_time_offsets for one device that
\* is not the reference device: the value time_offset_ms has afterwards
DeviceOffset(device_id, reference_device_id) ==
  LET reference_start_time ==
        find_event_time_for_device(EventsOfType(TypeString("start")), reference_device_id)
      device_start_time ==
        find_event_time_for_device(EventsOfType(TypeString("start")), device_id)
      paired == {event_type \in TypesPresent :
                   /\ find_event_time_for_device(EventsOfType(event_type),
                                                 reference_device_id) > 0
                   /\ find_event_time_for_device(EventsOfType(event_type),
                                                 device_id) > 0}
      total_offset == TotalOffset(paired, device_id, reference_device_id)
  IN  IF /\ TypeString("start") \in TypesPresent
         /\ reference_start_time > 0
         /\ device_start_time > 0
      THEN reference_start_time - device_start_time
      ELSE IF Cardinality(paired) > 0
      THEN total_offset \div Cardinality(paired)
      ELSE time_offset_ms[device_id]

\* session.add_sync_event(SyncEvent(timestamp, event_type))
add_sync_event(timestamp, event_type) ==
  /\ Len(sync_events) < MaxEvents
  /\ sync_events' = Append(sync_events, [timestamp |-> timestamp, type |-> event_type])
  /\ aligned_to' = NoReference
  /\ UNCHANGED time_offset_ms
  /\ UNCHANGED <<now, dmVars, smVars, ftVars, gsVars, fanVars, callVars, cfgVars,
                 devVars, syncVars, batchVars, stopVars,
                 cbVars, orphan,
                 streamVars>>

\* calculate_time_offsets(session, reference_device_id)
calculate_time_offsets(reference_device_id) ==
  /\ aligned_to' = reference_device_id
  /\ IF sync_events = <<>>
     THEN UNCHANGED time_offset_ms
     ELSE time_offset_ms' =
            [device_id \in DOMAIN time_offset_ms |->
               IF device_id = ReferenceDevice(reference_device_id)
               THEN 0
               ELSE DeviceOffset(device_id, reference_device_id)]
  /\ UNCHANGED sync_events
  /\ UNCHANGED <<now, dmVars, smVars, ftVars, gsVars, fanVars, callVars, cfgVars,
                 devVars, syncVars, batchVars, stopVars,
                 cbVars, orphan,
                 streamVars>>

InitAlignment ==
  /\ sync_events = <<>>
  /\ time_offset_ms = [device_id \in {"pc", "phone"} |-> 0]
  /\ aligned_to = NoReference

\* ------------------------------------------------------------------- clock

\* a thread is between two statements (not blocked in recv, accept or sleep)
Running ==
  \/ mon_pc # "sleep"
  \/ \E c \in Conns : hpc[c] \in {"sm_check", "sm_assign", "confirm"}
  \/ gpc \in {"start", "put", "evict", "reput"}

\* time passes while every thread is blocked; blocked recv calls and the
\* monitor's sleep see it pass
Tick ==
  /\ ~Running
  /\ now + TimeUnit <= MaxTime
  /\ now' = now + TimeUnit
  /\ recv_wait' = [c \in Conns |->
        IF hpc[c] \in {"handshake", "loop"} /\ sock_open[c]
        THEN Min(recv_wait[c] + TimeUnit, heartbeat_timeout)
        ELSE recv_wait[c]]
  /\ monitor_sleep' = Max(monitor_sleep - TimeUnit, 0)
  /\ UNCHANGED <<clients, hpc, hdev, sock_open, sent, mon_pc, timed_out_devices, last_inbound, gapped>>
  /\ UNCHANGED <<smVars, ftVars, gsVars, extVars>>

\* ----------------------------------------------------------- specification

InitSessionManager ==
  /\ current_session_dir = NoSession
  /\ session_id = NoSession
  /\ session_start_time = NoTime
  /\ connected_devices = <<>>
  /\ device_counter = 0
  /\ metadata = NoManifest
  /\ issued = [count |-> 0, last |-> 0]

InitFileTransferManager ==
  /\ active_transfers = <<>>
  /\ transfers = [k \in Attempts |-> NoTransfer]
  /\ tpc = [k \in Attempts |-> "idle"]
  /\ tinfo = [k \in Attempts |-> NoAttempt]
  /\ listener = NoAttempt
  /\ peer_open = [k \in Attempts |-> FALSE]
  /\ avail = [k \in Attempts |-> 0]
  /\ filename = [k \in Attempts |-> ""]
  /\ file_size = [k \in Attempts |-> 0]
  /\ received_size = [k \in Attempts |-> 0]
  /\ disk = [d \in DeviceIds, f \in FileNames |-> -1]
  /\ scenario = [k \in Attempts |-> NoScenario]
  /\ cancel_called = [k \in Attempts |-> FALSE]
  /\ notified = [device |-> NoDevice, event |-> ""]

InitGSRHandler ==
  /\ is_capturing = FALSE
  /\ start_time = NoTime
  /\ stopping = FALSE
  /\ start_result = "none"
  /\ gpc = "idle"
  /\ data_queue = <<>>
  /\ total_samples = 0
  /\ latest_data = 0
  /\ data = 0
  /\ produced = 0
  /\ enqueued = {}
  /\ reader_left = 0
  /\ samples = <<>>
  /\ data_callbacks = <<>>
  /\ cb_index = 0
  /\ invoked = <<>>
  /\ stable = {}
  /\ orphan = "idle"

InitCalls ==
  /\ register_result = [raised |-> "", name |-> 0]
  /\ stop_pc = "idle"
  /\ stop_size = 0
  /\ stop_visited = {}
  /\ stop_sockets = {}
  /\ stop_result = NoOutcome
  /\ batch_todo = <<>>
  /\ results = <<>>

InitStream ==
  /\ wire = [c \in Conns |-> <<>>]
  /\ written = [c \in Conns |-> 0]
  /\ dispatched = [c \in Conns |-> <<>>]

InitCaptureMode ==
  /\ capture_mode = "simulation"
  /\ pyshimmer_mac_address = NoAddress
  /\ mode_result = [raised |-> "", name |-> 0]
  /\ serial_port = NoAddress
  /\ connections = {}
  /\ capture_target = "none"

InitCommand ==
  /\ fan_pc = "idle"
  /\ fan_command = ""
  /\ fan_keys = {}
  /\ fan_todo = {}
  /\ count = 0
  /\ fan_calls = [d \in DeviceIds |-> 0]
  /\ fan_written = {}
  /\ fan_returned = -1

\* the state after construction, but for the imports
InitProgram ==
  /\ now = 0
  /\ clients = <<>>
  /\ hpc = [c \in Conns |-> "idle"]
  /\ hdev = [c \in Conns |-> NoDevice]
  /\ sock_open = [c \in Conns |-> FALSE]
  /\ recv_wait = [c \in Conns |-> 0]
  /\ sent = [c \in Conns |-> <<>>]
  /\ mon_pc = "sleep"
  /\ timed_out_devices = {}
  /\ monitor_sleep = 0
  /\ last_inbound = [d \in DeviceIds |-> NoTime]
  /\ gapped = [d \in DeviceIds |-> FALSE]
  /\ InitSessionManager
  /\ InitFileTransferManager
  /\ InitGSRHandler
  /\ InitCommand
  /\ InitCalls
  /\ InitCaptureMode
  /\ InitTimeSync
  /\ InitAlignment
  /\ InitStream

\* the server has been started; none of the optional backends is installed
Init ==
  /\ InitProgram
  /\ is_running = TRUE
  /\ available = {}

\* the server has not been started
InitNeverStarted ==
  /\ InitProgram
  /\ is_running = FALSE
  /\ available = {}

\* any of the optional backends may be installed
InitMode ==
  /\ InitProgram
  /\ is_running = TRUE
  /\ available \in SUBSET Backends

\* the device registry: every thread of DeviceManager, with no session started
Next ==
  \/ Tick
  \/ \E c \in Conns : accept_connection(c)
  \/ \E c \in Conns, m \in BadFirstMessages : handle_client_reject(c, m)
  \/ \E c \in Conns : handle_client_handshake_timeout(c)
  \/ \E c \in Conns, d \in DeviceIds : handle_client_register(c, d)
  \/ \E c \in Conns : handle_client_sm_check(c)
  \/ \E c \in Conns : handle_client_confirm(c)
  \/ \E c \in Conns, m \in LoopCommands : handle_client_message(c, m)
  \/ \E c \in Conns : handle_client_malformed(c)
  \/ \E c \in Conns : handle_client_eof(c)
  \/ \E c \in Conns : handle_client_timeout(c)
  \/ heartbeat_monitor_scan
  \/ \E d \in DeviceIds : heartbeat_monitor_remove(d)
  \/ heartbeat_monitor_send

Spec == Init /\ [][Next]_vars

\* registration and the session store: the handlers up to their steady-state
\* loop and their end, with sessions started and stopped by the application
NextSession ==
  \/ Tick
  \/ start_session
  \/ stop_session
  \/ \E c \in Conns : accept_connection(c)
  \/ \E c \in Conns, m \in BadFirstMessages : handle_client_reject(c, m)
  \/ \E c \in Conns : handle_client_handshake_timeout(c)
  \/ \E c \in Conns, d \in DeviceIds : handle_client_register(c, d)
  \/ \E c \in Conns : handle_client_sm_check(c)
  \/ \E c \in Conns : handle_client_sm_assign(c)
  \/ \E c \in Conns : handle_client_confirm(c)
  \/ \E c \in Conns : handle_client_eof(c)

SpecSession == Init /\ [][NextSession]_vars

\* the session store alone, called by the application thread
NextStore ==
  \/ Tick
  \/ start_session
  \/ stop_session
  \/ \E d \in DeviceIds : register_device(d)

SpecStore == Init /\ [][NextStore]_vars


\* the controller with every device registered and confirmed before any
\* session: device number i of DeviceIds on connection i
DeviceOf(c) == IF c = 1 THEN "A" ELSE "B"

InitTransfer ==
  /\ now = 0
  /\ is_running = TRUE
  /\ clients = [d \in DeviceIds |->
                  [socket |-> CHOOSE c \in Conns : DeviceOf(c) = d, last_heartbeat |-> 0]]
  /\ hpc = [c \in Conns |-> "loop"]
  /\ hdev = [c \in Conns |-> DeviceOf(c)]
  /\ sock_open = [c \in Conns |-> TRUE]
  /\ recv_wait = [c \in Conns |-> 0]
  /\ sent = [c \in Conns |-> <<[command |-> "registration_confirmed",
                                session_active |-> FALSE]>>]
  /\ mon_pc = "sleep"
  /\ timed_out_devices = {}
  /\ monitor_sleep = 0
  /\ last_inbound = [d \in DeviceIds |-> 0]
  /\ gapped = [d \in DeviceIds |-> FALSE]
  /\ InitSessionManager
  /\ InitFileTransferManager
  /\ InitGSRHandler
  /\ InitCommand
  /\ InitCalls
  /\ InitCaptureMode
  /\ InitTimeSync
  /\ InitAlignment
  /\ InitStream
  /\ available = {}

\* the transfer service receiving from a device: one transfer is started
\* in a run, its thread and the peer on its connection take their steps
\* beside the calls of the application, with sessions started and stopped
\* and devices going away
NextTransfer ==
  \/ start_session
  \/ stop_session
  \/ \E c \in Conns : handle_client_eof(c)
  \/ \E d \in DeviceIds : tpc[1] = "idle" /\ start_file_transfer(d)
  \/ \E k \in Attempts : transfer_files_thread_begin(k)
  \/ \E k \in Attempts : transfer_files_thread_command(k)
  \/ \E k \in Attempts : setup_transfer_server_bind(k)
  \/ \E k \in Attempts : setup_transfer_server_accept(k)
  \/ \E k \in Attempts : setup_transfer_server_timeout(k)
  \/ \E k \in Attempts, u \in Units : handle_file_transfer_header(k, u)
  \/ \E k \in Attempts, c \in 1 .. MaxFileSize : handle_file_transfer_chunk(k, c)
  \/ \E k \in Attempts : handle_file_transfer_short(k)
  \/ \E k \in Attempts : handle_file_transfer_file_done(k)
  \/ \E k \in Attempts : setup_transfer_server_close(k)
  \/ \E d \in DeviceIds : cancel_transfer(d)
  \/ cleanup_completed_transfers

SpecTransfer == InitTransfer /\ [][NextTransfer]_vars


\* transfers started again and again to which no device connects: the
\* threads up to their accept timeout beside the calls of the application
NextRestart ==
  \/ \E c \in Conns : handle_client_eof(c)
  \/ \E d \in DeviceIds : start_file_transfer(d)
  \/ \E k \in Attempts : transfer_files_thread_begin(k)
  \/ \E k \in Attempts : transfer_files_thread_command(k)
  \/ \E k \in Attempts : setup_transfer_server_bind(k)
  \/ \E k \in Attempts : setup_transfer_server_timeout(k)
  \/ \E d \in DeviceIds : cancel_transfer(d)
  \/ cleanup_completed_transfers

SpecRestart == InitTransfer /\ [][NextRestart]_vars

\* a batch of transfers: the loop of start_batch_transfer beside the threads
\* it starts and the peers that connect to them
NextBatch ==
  \/ \E device_ids \in BatchLists : start_batch_transfer_call(device_ids)
  \/ start_batch_transfer_next
  \/ \E k \in Attempts : transfer_files_thread_begin(k)
  \/ \E k \in Attempts : transfer_files_thread_command(k)
  \/ \E k \in Attempts : setup_transfer_server_bind(k)
  \/ \E k \in Attempts : setup_transfer_server_accept(k)
  \/ \E k \in Attempts : setup_transfer_server_timeout(k)
  \/ \E k \in Attempts, u \in Units : handle_file_transfer_header(k, u)
  \/ \E k \in Attempts, c \in 1 .. MaxFileSize : handle_file_transfer_chunk(k, c)
  \/ \E k \in Attempts : handle_file_transfer_short(k)
  \/ \E k \in Attempts : handle_file_transfer_file_done(k)
  \/ \E k \in Attempts : setup_transfer_server_close(k)

SpecBatch == InitTransfer /\ [][NextBatch]_vars

\* commands sent to every device by the application, while devices send
\* messages and go away
Commands == {"start_recording", "stop_recording"}

NextCommand ==
  \/ \E cmd \in Commands : send_command_to_all_call(cmd)
  \/ \E d \in DeviceIds, broken \in BOOLEAN : send_command_to_all_send(d, broken)
  \/ send_command_to_all_return
  \/ \E c \in Conns, m \in LoopCommands : handle_client_message(c, m)
  \/ \E c \in Conns : handle_client_eof(c)

SpecCommand == InitTransfer /\ [][NextCommand]_vars

\* stop_server, on a server never started or on one with two devices
\* registered, beside the handlers of the devices
InitStop == InitNeverStarted \/ InitTransfer

NextStop ==
  \/ stop_server_call
  \/ stop_server_close
  \/ stop_server_return
  \/ \E c \in Conns, m \in LoopCommands : handle_client_message(c, m)
  \/ \E c \in Conns : handle_client_eof(c)
  \/ \E c \in Conns : handle_client_stopped(c)

SpecStop == InitStop /\ [][NextStop]_vars

\* the steady-state loops of two registered handlers beside the heartbeat
\* monitor
NextLoop ==
  \/ Tick
  \/ \E c \in Conns, m \in LoopCommands : handle_client_message(c, m)
  \/ \E c \in Conns : handle_client_malformed(c)
  \/ \E c \in Conns : handle_client_eof(c)
  \/ \E c \in Conns : handle_client_timeout(c)
  \/ heartbeat_monitor_scan
  \/ \E d \in DeviceIds : heartbeat_monitor_remove(d)
  \/ heartbeat_monitor_send

SpecLoop == InitTransfer /\ [][NextLoop]_vars

\* the capture engine: the acquisition thread beside a reader of the queue
NextCapture ==
  \/ Tick
  \/ start_gsr_capture
  \/ stop_gsr_capture
  \/ stop_gsr_capture_return
  \/ simulation_capture_loop_exit
  \/ simulation_capture_loop_sample
  \/ process_gsr_data_put
  \/ process_gsr_data_evict
  \/ process_gsr_data_reput
  \/ \E m \in 1 .. MaxBatch : get_gsr_data_batch_call(m)
  \/ get_gsr_data_batch_get

SpecCapture == Init /\ [][NextCapture]_vars

\* the capture engine with its modes: the application thread selects and
\* configures a mode, starts and stops; the machine answers every start
NextMode ==
  \/ \E mode \in Modes \cup {UnknownMode} : set_capture_mode(mode)
  \/ \E mac_address \in {NoAddress, MacAddress} : configure_pyshimmer(mac_address)
  \/ \E port \in {NoAddress, Discovered} : configure_serial(port)
  \/ start_gsr_capture
  \/ stop_gsr_capture
  \/ stop_gsr_capture_return
  \/ simulation_capture_loop_exit
  \/ simulation_capture_loop_sample
  \/ device_capture_loop_sample
  \/ process_gsr_data_put
  \/ process_gsr_data_evict
  \/ process_gsr_data_reput

SpecMode == InitMode /\ [][NextMode]_vars

\* the capture engine with its callbacks: the application thread registers
\* and removes callbacks, starts and stops; the capture thread hands every
\* sample to the queue and to the callbacks
NextCallbacks ==
  \/ \E callback \in Callbacks : add_data_callback(callback)
  \/ \E callback \in Callbacks : remove_data_callback(callback)
  \/ start_gsr_capture
  \/ stop_gsr_capture
  \/ stop_gsr_capture_return
  \/ simulation_capture_loop_exit
  \/ simulation_capture_loop_sample
  \/ process_gsr_data_put
  \/ process_gsr_data_evict
  \/ process_gsr_data_reput
  \/ process_gsr_data_callback

SpecCallbacks == Init /\ [][NextCallbacks]_vars

\* the capture engine started and stopped again while its thread is held
\* in a callback for longer than the join of stop_gsr_capture waits
NextJoin ==
  \/ \E callback \in Callbacks : add_data_callback(callback)
  \/ start_gsr_capture
  \/ stop_gsr_capture
  \/ stop_gsr_capture_return
  \/ stop_gsr_capture_join_timeout
  \/ simulation_capture_loop_exit
  \/ simulation_capture_loop_sample
  \/ process_gsr_data_put
  \/ process_gsr_data_evict
  \/ process_gsr_data_reput
  \/ process_gsr_data_callback
  \/ orphan_callback_return
  \/ orphan_capture_loop_exit
  \/ orphan_capture_loop_sample

SpecJoin == Init /\ [][NextJoin]_vars

\* two registered devices write messages on their control channels and the
\* handlers read the streams in pieces of any size
NextStream ==
  \/ \E c \in Conns, command \in {"heartbeat", "status_update"} : device_write(c, command)
  \/ \E c \in Conns, n \in 1 .. 3 * MaxMessages : handle_client_recv(c, n)

SpecStream == InitTransfer /\ [][NextStream]_vars

\* timestamps are converted to the reference timeline
NextOffset ==
  \E local_timestamp, reference_timestamp \in 0 .. MaxTimestamp :
    synchronise_timestamp(local_timestamp, reference_timestamp)

SpecOffset == Init /\ [][NextOffset]_vars

\* ping exchanges are averaged
NextSync ==
  \/ \E n \in 0 .. MaxPings : perform_ntp_like_sync_call(n)
  \/ \E local_send_time, remote_time \in 0 .. MaxSendTime : \E delay \in 0 .. MaxDelay :
       perform_ntp_like_sync_sample(local_send_time, local_send_time + delay, remote_time)
  \/ perform_ntp_like_sync_return

SpecSync == Init /\ [][NextSync]_vars

\* a session's sync events are recorded and the offsets calculated
NextAlign ==
  \/ \E timestamp \in 1 .. MaxStamp : \E event_type \in EventTypes :
       add_sync_event(timestamp, event_type)
  \/ \E reference_device_id \in {"pc", "phone", AbsentDevice} :
       calculate_time_offsets(reference_device_id)

SpecAlign == Init /\ [][NextAlign]_vars


\* ------------------------------------------------------------------ claims

\* the handler of connection c is past registration and its socket is open
Live(c) == hpc[c] \in {"sm_check", "sm_assign", "confirm", "loop"} /\ sock_open[c]

\* a step that removes device d from clients because of a timeout: the
\* monitor's removal, or the timeout branch of a handler of that id
RemovedOnTimeout(d) ==
  /\ d \in Registered
  /\ d \notin Registered'
  /\ \/ heartbeat_monitor_remove(d)
     \/ \E c \in Conns : hdev[c] = d /\ handle_client_timeout(c)

\* C1, the devices that stay: a device is removed by the monitor or by a
\* handler's timeout only if two consecutive inbound payloads of it were
\* heartbeat_timeout or more apart, or its last one is that old
C1_KeptWhileHeard ==
  [][\A d \in DeviceIds :
       RemovedOnTimeout(d) =>
         (gapped[d] \/ now - last_inbound[d] >= heartbeat_timeout)
    ]_vars

\* C2: no two connections with an open socket and a running handler carry
\* the same device id
C2_OneLiveConnection ==
  \A c1, c2 \in Conns :
    (Live(c1) /\ Live(c2) /\ hdev[c1] = hdev[c2]) => c1 = c2

\* C5: the k-th return of register_device in a session is the name with
\* number k (so no name is returned twice)
C5_NamesInCallOrder ==
  issued.count > 0 => issued.last = issued.count

\* C6: start_session while a session is active changes nothing of the
\* session, and a session directory is left only with its end stamped
C6_StartWhileActiveRejected ==
  [][/\ (is_session_active /\ start_session) =>
          UNCHANGED <<session_id, current_session_dir, session_start_time,
                      connected_devices, device_counter>>
     /\ (metadata.session_directory # NoSession
         /\ metadata'.session_directory # metadata.session_directory) =>
          metadata.session_end_time # NoTime
    ]_vars

\* C9: when a handler has sent its confirmation after a valid registration,
\* the id is in clients, the confirmation is the write just made to the
\* handler's own socket with session_active as the session is, and with a
\* session active the device has its entry and directory in the store
C9_RegistrationConfirmed ==
  [][\A c \in Conns :
       (hpc[c] = "confirm" /\ hpc'[c] = "loop") =>
         /\ hdev[c] \in Registered'
         /\ Len(sent'[c]) = Len(sent[c]) + 1
         /\ sent'[c][Len(sent'[c])] =
              [command |-> "registration_confirmed",
               session_active |-> is_session_active']
         /\ is_session_active' =>
              /\ hdev[c] \in DOMAIN connected_devices'
              /\ connected_devices'[hdev[c]].device_dir_path[1] = current_session_dir'
    ]_vars

\* a connection whose first message was not register_device
Rejected(c) == hpc[c] = "done" /\ hdev[c] = NoDevice

\* C10: a connection rejected at its first message has nothing written to
\* it and is closed, and the rejection leaves clients and the session store
\* as they were
C10_RejectedUntouched ==
  [][\A c \in Conns :
       /\ Rejected(c)' => (sent'[c] = <<>> /\ ~sock_open'[c])
       /\ (hpc[c] = "handshake" /\ Rejected(c)') =>
            UNCHANGED <<clients, connected_devices, device_counter, metadata>>
    ]_vars

\* a rejected connection beside a registered and confirmed one, in a session
C10_Witness ==
  /\ is_session_active
  /\ \E c, b \in Conns :
       /\ Rejected(c)
       /\ hpc[b] = "loop" /\ sent[b] # <<>> /\ hdev[b] \in DOMAIN connected_devices

\* how far a status is on Starting -> Transferring -> terminal
StatusRank(st) ==
  CASE st = "none" -> 0
    [] st = "starting" -> 1
    [] st = "transferring" -> 2
    [] OTHER -> 3

\* C3: the status of a transfer attempt never moves backward, a terminal
\* status is never changed by any later step, and cancelled is written by
\* cancel_transfer only
C3_StatusForwardOnly ==
  [][\A k \in Attempts :
       /\ StatusRank(transfers[k].status) <= StatusRank(transfers'[k].status)
       /\ transfers[k].status \in Terminal => transfers'[k].status = transfers[k].status
       /\ (transfers'[k].status = "cancelled" /\ transfers[k].status # "cancelled")
            => \E d \in DeviceIds : cancel_transfer(d)
    ]_vars

\* the attempt is the only one of its device and was never cancelled
Undisturbed(k) ==
  /\ ~cancel_called[k]
  /\ \A j \in Attempts \ {k} : transfers[j].device # transfers[k].device

\* C4: while the peer of an undisturbed transfer has sent whole files only
\* (each header followed by exactly the announced bytes), the transfer is
\* Transferring and goes on reading, and each time it is back at a header
\* every file sent is counted and the last one is in the destination with
\* its bytes; once the complete header has come after them the status is
\* Completed, with the same count and file
C4_FilesThenComplete ==
  \A k \in Attempts :
    (scenario[k].clean /\ Undisturbed(k)) =>
      LET r == transfers[k]
          received ==
            /\ r.transferred_files = scenario[k].files
            /\ scenario[k].files > 0 =>
                 disk[r.device, scenario[k].filename] = scenario[k].size
      IN IF scenario[k].complete
         THEN r.status = "completed" /\ received
         ELSE /\ tpc[k] \in {"header", "payload", "file_done"}
              /\ r.status = "transferring"
              /\ tpc[k] = "header" => received

\* C8: a transfer record never counts more bytes or files than its totals
C8_TransferredWithinTotal ==
  \A k \in Attempts :
    transfers[k].status # "none" =>
      /\ transfers[k].transferred_size <= transfers[k].total_size
      /\ transfers[k].transferred_files <= transfers[k].total_files

\* C7: the queue never holds more than its capacity; every sample generated
\* adds one to total_samples and nothing else changes it; a sample that met
\* a full queue has the oldest queued sample removed for it, and when its
\* processing ends it has been put on the queue
C7_BoundedDropOldest ==
  [][/\ Len(data_queue') <= QueueCapacity
     /\ total_samples' = IF produced' = produced THEN total_samples
                                                 ELSE total_samples + 1
     /\ (gpc = "evict" /\ gpc' # "evict") =>
          (data_queue # <<>> /\ data_queue' = Tail(data_queue))
     /\ (gpc \in {"put", "evict", "reput"} /\ gpc' = "loop") => data \in enqueued'
    ]_vars

\* C11: when send_command_to_all returns, send_command has been called once
\* for every device that was in clients when it was called and for no other,
\* whether the sends before it failed or not, and the value returned is the
\* number of devices whose write succeeded
C11_FanOutBestEffort ==
  [][(fan_pc = "loop" /\ fan_pc' = "idle") =>
       /\ \A d \in DeviceIds : fan_calls[d] = IF d \in fan_keys THEN 1 ELSE 0
       /\ fan_returned' = Cardinality(fan_written)
    ]_vars

\* a fan-out over two devices has returned 1: the write to one of them has
\* failed, the write to the other one has succeeded and is on its socket
C11_Witness ==
  /\ fan_pc = "idle"
  /\ fan_keys = DeviceIds
  /\ fan_returned = 1
  /\ \E d \in DeviceIds :
       /\ fan_written = {d}
       /\ d \in Registered
       /\ sent[clients[d].socket][Len(sent[clients[d].socket])].command = fan_command

\* C12: once the transfer thread has left the connection of a transfer that
\* was not cancelled, the transfer is not Transferring any more, and it is
\* Failed unless a complete header has arrived: a header that does not
\* parse, a header of another type, or the peer closing early all end there
C12_BadChannelFails ==
  \A k \in Attempts :
    (tpc[k] = "close" /\ tinfo[k] # NoAttempt /\ ~cancel_called[tinfo[k]]) =>
      /\ transfers[tinfo[k]].status # "transferring"
      /\ ~scenario[k].complete => transfers[tinfo[k]].status = "failed"

\* C13: when the accept of a transfer thread times out, the transfer record
\* of the device is Failed with the timeout error, and the callbacks have
\* just been called with transfer_failed for the device
C13_AcceptTimeoutFails ==
  [][\A k \in Attempts :
       (setup_transfer_server_timeout(k) /\ transfers[k].device \in Transferring) =>
         LET d == transfers[k].device
             r == transfers'[active_transfers'[d]]
         IN /\ d \in Transferring'
            /\ r.status = "failed"
            /\ r.error = "Transfer timeout"
            /\ notified' = Notify(d, "transfer_failed")
    ]_vars

\* a transfer whose thread has ended on the accept timeout
C13_Witness ==
  \E k \in Attempts :
    /\ tpc[k] = "done"
    /\ transfers[k].status = "failed"
    /\ transfers[k].error = "Transfer timeout"
    /\ notified = Notify(transfers[k].device, "transfer_failed")
    /\ scenario[k].units = 0

\* C14: when a file has arrived completely while a session is active, the
\* transfer goes on to the next header with its status as it was, and the
\* store holds one more FileRecord under the device
C14_ReceivedFileRecorded ==
  [][\A k \in Attempts :
       (/\ handle_file_transfer_file_done(k)
        /\ received_size[k] = file_size[k]
        /\ is_session_active) =>
         /\ tpc'[k] = "header"
         /\ transfers'[tinfo[k]].status = transfers[tinfo[k]].status
         /\ Len(device_files(transfers[k].device)') =
              Len(device_files(transfers[k].device)) + 1
    ]_vars

\* C15: start_file_transfer for a device whose transfer is Starting or
\* Transferring leaves the record of that transfer in place and as it is,
\* and starts no thread
C15_StartWhileTransferringRejected ==
  [][\A d \in DeviceIds :
       (/\ d \in Transferring
        /\ transfers[active_transfers[d]].status \in {"starting", "transferring"}
        /\ start_file_transfer(d)) =>
         UNCHANGED <<active_transfers, transfers, tpc>>
    ]_vars

C18_RegisterWithoutSessionRefused ==
  [][\A d \in DeviceIds :
       (register_device(d) /\ ~is_session_active) =>
         /\ register_result' = Raised("RuntimeError")
         /\ UNCHANGED <<device_counter, connected_devices, issued, metadata,
                        current_session_dir, session_id, session_start_time>>
    ]_vars

\* register_device has been refused after a session in which a device was
\* registered has been stopped
C18_Witness ==
  /\ ~is_session_active
  /\ register_result = Raised("RuntimeError")
  /\ metadata.connected_devices # <<>>
  /\ metadata.session_end_time # NoTime

\* C19: start_gsr_capture called while capturing returns False, starts no
\* second capture thread and leaves the state of the handler as it is;
\* stop_gsr_capture called while not capturing changes nothing
C19_StartStopNoOp ==
  [][/\ (start_gsr_capture /\ is_capturing) =>
          /\ start_result' = "False"
          /\ UNCHANGED <<is_capturing, start_time, stopping, gpc, data_queue,
                         total_samples, latest_data, data, produced, enqueued,
                         reader_left, samples>>
     /\ (stop_gsr_capture /\ ~is_capturing) => UNCHANGED gsVars
    ]_vars

\* start_gsr_capture has been refused while the capture thread of the first
\* call was delivering samples
C19_Witness ==
  /\ is_capturing
  /\ start_result = "False"
  /\ gpc # "idle"
  /\ total_samples > 0

C21_BadModeRefused ==
  [][/\ \A mode \in Modes \cup {UnknownMode} :
          (set_capture_mode(mode) /\ mode \notin {"simulation"} \cup available) =>
             /\ mode_result'.raised \in {"ValueError", "RuntimeError"}
             /\ capture_mode' = capture_mode
     /\ (start_gsr_capture /\ ~is_capturing /\ capture_mode = "pyshimmer"
           /\ pyshimmer_mac_address = NoAddress) =>
          start_result' = "False"
     /\ (start_gsr_capture /\ ~is_capturing /\ start_result' = "False") =>
          /\ ~is_capturing'
          /\ gpc = "idle" /\ gpc' = "idle"
          /\ capture_target' = capture_target
    ]_vars

\* the pyshimmer backend is installed and selected, another mode has been
\* refused since, no MAC address is set, a start has been refused and the
\* engine is idle
C21_Witness ==
  /\ capture_mode = "pyshimmer"
  /\ pyshimmer_mac_address = NoAddress
  /\ mode_result.raised \in {"ValueError", "RuntimeError"}
  /\ start_result = "False"
  /\ ~is_capturing
  /\ gpc = "idle"

\* C22: the offset of a local timestamp to a reference timestamp, added to
\* the local timestamp, gives the reference timestamp
C22_OffsetRoundTrip ==
  round_trip # NoRoundTrip =>
    /\ round_trip.offset = round_trip.reference - round_trip.local
    /\ round_trip.converted = round_trip.reference

\* a local timestamp that is later than the reference has been converted
C22_Witness ==
  /\ round_trip # NoRoundTrip
  /\ round_trip.local > round_trip.reference
  /\ round_trip.converted = round_trip.reference

\* the offsets of the first k exchanges of the call
FirstOffsets(k) == SubSeq(offsets, 1, k)
IdenticalRtts ==
  \A i, k \in 1 .. Len(round_trip_times) : round_trip_times[i] = round_trip_times[k]
Returned_ntp ==
  /\ ntp_pc = "idle"
  /\ ntp_result # NoResult
  /\ num_samples >= 1

\* C23 as stated: when all the exchanges of a call had the same round trip,
\* the offset returned is the mean of the offsets of all of them
C23_MeanOfAll ==
  (Returned_ntp /\ IdenticalRtts) =>
    SameQuotient(ntp_result.final_offset, Quotient(SumOf(offsets), Len(offsets)))

\* C23 as amended: when all the exchanges of a call had the same round
\* trip, the offset returned is the mean of the offsets of the first
\* max(1, N // 2) exchanges, and the error margin half that round trip
C23_MeanOfFirstHalf ==
  (Returned_ntp /\ IdenticalRtts) =>
    LET k == Max(1, num_samples \div 2)
    IN  /\ Len(offsets) = num_samples
        /\ ntp_result.final_offset.den = k
        /\ ntp_result.final_offset.num = SumOf(FirstOffsets(k))
        /\ SameQuotient(ntp_result.error_margin, Quotient(round_trip_times[1], 2))

\* a call of three exchanges of equal round trip has returned; the offsets
\* of the exchanges differ, and so do the mean of all and the mean returned
C23_Witness ==
  /\ Returned_ntp
  /\ IdenticalRtts
  /\ num_samples = 3
  /\ offsets[1] # offsets[2]
  /\ ~SameQuotient(ntp_result.final_offset, Quotient(SumOf(offsets), Len(offsets)))

\* the events of a device: those whose type names it
HasEvent(device_id, label) ==
  \E i \in 1 .. Len(sync_events) :
    sync_events[i].type.label = label /\ device_id \in sync_events[i].type.ids
EventTime(device_id, label) ==
  sync_events[CHOOSE i \in 1 .. Len(sync_events) :
                /\ sync_events[i].type.label = label
                /\ device_id \in sync_events[i].type.ids
                /\ \A k \in 1 .. i - 1 :
                     ~(sync_events[k].type.label = label
                         /\ device_id \in sync_events[k].type.ids)].timestamp

\* C24: after calculate_time_offsets the reference device has offset 0, and
\* a device that has a "start" event, as the reference device has, has the
\* offset reference start timestamp - device start timestamp
C24_StartPairOffset ==
  (aligned_to \in {"pc", "phone"} /\ sync_events # <<>>) =>
    /\ time_offset_ms[aligned_to] = 0
    /\ \A device_id \in {"pc", "phone"} \ {aligned_to} :
         (HasEvent(aligned_to, "start") /\ HasEvent(device_id, "start")) =>
           time_offset_ms[device_id] =
             EventTime(aligned_to, "start") - EventTime(device_id, "start")

\* C25: the transfer thread of one device is never made to fail by the
\* transfer of another device: its bind of the transfer port does not end
\* in "failed" because the thread of another device is listening there
C25_TransfersIndependent ==
  [][\A k \in Attempts :
       (/\ setup_transfer_server_bind(k)
        /\ listener # NoAttempt
        /\ transfers[listener].device # transfers[k].device
        /\ transfers[k].device \in Transferring
        /\ active_transfers[transfers[k].device] = k) =>
          transfers'[k].status # "failed"
    ]_vars

\* C26: stop_server never ends in an exception, and when it has returned
\* is_running is False, clients is empty and every socket that was
\* registered when it was called is closed
C26_StopServerReturns ==
  /\ stop_result.raised = ""
  /\ stop_result = Returned(0) =>
       /\ ~is_running
       /\ clients = <<>>
       /\ \A c \in stop_sockets : ~sock_open[c]

\* the last payload of the device of connection c was dropped: it arrived
\* after the last message or registration that refreshed last_heartbeat
DroppedLast(c) ==
  /\ hdev[c] \in Registered
  /\ clients[hdev[c]].socket = c
  /\ last_inbound[hdev[c]] > clients[hdev[c]].last_heartbeat

\* C27: a payload that is no JSON, read in the loop of a registered
\* connection, closes nothing and removes nothing: the socket stays open,
\* the handler stays in its loop and clients is as it was; a well-formed
\* message read after a dropped payload is processed; and a handler leaves
\* its loop only on a zero-byte read, a timeout or a socket error
C27_MalformedDropped ==
  [][\A c \in Conns :
       /\ handle_client_malformed(c) =>
            /\ sock_open'[c]
            /\ hpc'[c] = "loop"
            /\ clients' = clients
       /\ \A m \in LoopCommands :
            (handle_client_message(c, m) /\ DroppedLast(c)) =>
               /\ clients'[hdev[c]].last_heartbeat = now
               /\ sock_open'[c]
               /\ hpc'[c] = "loop"
       /\ (hpc[c] = "loop" /\ hpc'[c] # "loop") =>
            \/ handle_client_eof(c)
            \/ handle_client_timeout(c)
            \/ handle_client_stopped(c)
    ]_vars

\* a payload was dropped on a connection that is still registered and open,
\* with its handler in the loop
C27_Witness ==
  \E c \in Conns :
    /\ DroppedLast(c)
    /\ last_inbound[hdev[c]] = now
    /\ hpc[c] = "loop"
    /\ sock_open[c]

\* C28: the heartbeat monitor closes the socket of a device and deletes its
\* entry only when the entry stored under the id at that moment has a
\* last_heartbeat older than heartbeat_timeout
C28_RemovalOnlyWhenOverdue ==
  [][\A d \in DeviceIds :
       (heartbeat_monitor_remove(d) /\ d \in Registered) =>
          now - clients[d].last_heartbeat > heartbeat_timeout
    ]_vars

\* C29: every payload read in the loop of a handler whose device is
\* registered, a message of any command or bytes that are no JSON, sets
\* last_heartbeat of the device to the time of the read
C29_EveryPayloadRefreshes ==
  [][\A c \in Conns :
       (/\ hdev[c] \in Registered
        /\ \/ handle_client_malformed(c)
           \/ \E m \in LoopCommands : handle_client_message(c, m)) =>
          clients'[hdev[c]].last_heartbeat = now
    ]_vars

\* the relative order in which two callbacks stand on a list
Before(list, a, b) ==
  \E i, k \in 1 .. Len(list) : i < k /\ list[i] = a /\ list[k] = b

\* C30: when the for loop over the callbacks ends for a sample, every
\* callback that was registered when the loop began and has not been removed
\* since has been called with the sample exactly once, and those callbacks
\* were called in the order of their registration
C30_EveryCallbackOnce ==
  [][(gpc = "callbacks" /\ gpc' = "loop") =>
       /\ \A callback \in stable :
            Cardinality({k \in 1 .. Len(invoked) : invoked[k] = callback}) = 1
       /\ \A a, b \in stable :
            Before(data_callbacks, a, b) => Before(invoked, a, b)
    ]_vars

\* C31: with a session active, metadata.json on disk lists every device
\* that register_device has registered in the session
C31_ManifestListsRegistered ==
  is_session_active =>
    DOMAIN connected_devices \subseteq DOMAIN metadata.connected_devices

\* the sum of the offsets of the exchanges of the numbers in picked
RECURSIVE SumAt(_)
SumAt(picked) ==
  IF picked = {} THEN 0
  ELSE LET i == CHOOSE i \in picked : TRUE
       IN  offsets[i] + SumAt(picked \ {i})

\* C32: every exchange of perform_ntp_like_sync adds the offset
\* remote_time - (local_send_time + rtt // 2) and its round trip; the call
\* returns, for N >= 1 exchanges, the mean of the offsets of max(1, N // 2)
\* exchanges none of which has a longer round trip than an exchange left
\* out, with half the smallest round trip as error margin, and for no
\* exchange offset 0 with an infinite error margin
C32_NtpLikeSync ==
  [][/\ \A local_send_time, remote_time \in 0 .. MaxSendTime : \A rtt \in 0 .. MaxDelay :
          perform_ntp_like_sync_sample(local_send_time, local_send_time + rtt, remote_time) =>
             /\ offsets' = Append(offsets, remote_time - (local_send_time + rtt \div 2))
             /\ round_trip_times' = Append(round_trip_times, rtt)
     /\ perform_ntp_like_sync_return =>
          IF num_samples = 0
          THEN /\ ntp_result'.final_offset.num = 0
               /\ ntp_result'.final_offset.den # 0
               /\ ntp_result'.error_margin = Infinity
          ELSE \E picked \in SUBSET (1 .. num_samples) :
                 /\ Cardinality(picked) = Max(1, num_samples \div 2)
                 /\ \A i \in picked : \A k \in (1 .. num_samples) \ picked :
                      round_trip_times[i] <= round_trip_times[k]
                 /\ ntp_result'.final_offset.den # 0
                 /\ SameQuotient(ntp_result'.final_offset,
                                 Quotient(SumAt(picked), Cardinality(picked)))
                 /\ ntp_result'.error_margin.den # 0
                 /\ SameQuotient(ntp_result'.error_margin,
                                 Quotient(MinOf(round_trip_times), 2))
    ]_vars

\* a call of four exchanges has returned the mean of two of them: the
\* exchange of the longest round trip came first and was left out, the
\* round trips were odd and even, and the mean is no whole number
C32_Witness ==
  /\ Returned_ntp
  /\ num_samples = 4
  /\ round_trip_times[1] = 2
  /\ round_trip_times[2] = 1
  /\ round_trip_times[3] = 0
  /\ round_trip_times[4] = 2
  /\ offsets[1] # offsets[2]
  /\ ntp_result.final_offset.den = 2
  /\ ntp_result.final_offset.num = offsets[2] + offsets[3]
  /\ ntp_result.final_offset.num % 2 = 1
  /\ SameQuotient(ntp_result.error_margin, Quotient(0, 2))

\* C33: after calculate_time_offsets with a reference id that the session
\* has no device of, the first device of the session has offset 0, and a
\* device that has a "start" event, as the first device has, has the offset
\* first device's start timestamp - device start timestamp
C33_FirstDeviceIsReference ==
  (aligned_to = AbsentDevice /\ sync_events # <<>>) =>
    /\ time_offset_ms[SessionDevices[1]] = 0
    /\ \A i \in 2 .. Len(SessionDevices) :
         (HasEvent(SessionDevices[1], "start") /\ HasEvent(SessionDevices[i], "start")) =>
           time_offset_ms[SessionDevices[i]] =
             EventTime(SessionDevices[1], "start") - EventTime(SessionDevices[i], "start")

\* a quotient rounded toward zero
Truncated(a, b) == IF a >= 0 THEN a \div b ELSE -((-a) \div b)

\* the sum, over the labels given, of reference timestamp - device timestamp
RECURSIVE LabelOffsets(_, _, _)
LabelOffsets(labels, device_id, reference_device_id) ==
  IF labels = {} THEN 0
  ELSE LET label == CHOOSE l \in labels : TRUE
       IN  (EventTime(reference_device_id, label) - EventTime(device_id, label))
           + LabelOffsets(labels \ {label}, device_id, reference_device_id)

\* C34: after calculate_time_offsets, a device that has no "start" pair
\* with the reference device but has events of other types in common with
\* it has as offset the average of the offsets of those types, rounded
\* toward zero
C34_TruncatedAverage ==
  (aligned_to \in {"pc", "phone"} /\ sync_events # <<>>) =>
    \A device_id \in {"pc", "phone"} \ {aligned_to} :
      LET common == {label \in EventLabels :
                       HasEvent(aligned_to, label) /\ HasEvent(device_id, label)}
      IN  ("start" \notin common /\ common # {}) =>
            time_offset_ms[device_id] =
              Truncated(LabelOffsets(common, device_id, aligned_to), Cardinality(common))

\* C35: a handler that ends (zero-byte read or timeout) while the entry
\* under its device id belongs to another connection, one that registered
\* under the id later, leaves that entry in the registry as it is
C35_OnlyOwnEntryRemoved ==
  [][\A c \in Conns :
       (/\ handle_client_eof(c) \/ handle_client_timeout(c)
        /\ hdev[c] \in Registered
        /\ clients[hdev[c]].socket # c) =>
          /\ hdev[c] \in DOMAIN clients'
          /\ clients'[hdev[c]] = clients[hdev[c]]
    ]_vars

\* C36: the first message written on a connection is registration_confirmed
C36_ConfirmationFirst ==
  \A c \in Conns :
    sent[c] # <<>> => sent[c][1].command = "registration_confirmed"

\* C37: two different devices registered in the session never have the
\* same directory name
C37_DistinctDirectoryNames ==
  \A d, e \in DOMAIN connected_devices :
    d # e => connected_devices[d].device_dir_name # connected_devices[e].device_dir_name

\* C38: at no time are two capture threads alive
C38_OneRoutineRunning ==
  ~(gpc # "idle" /\ orphan # "idle")

\* how often message id was handed to _process_message on connection c
TimesDispatched(c, id) ==
  Cardinality({k \in 1 .. Len(dispatched[c]) : dispatched[c][k] = id})

\* C39: no message is dispatched twice, and once the handler has read all
\* the bytes a device has written, every message the device wrote has been
\* dispatched once
C39_EveryMessageDispatchedOnce ==
  \A c \in Conns :
    /\ \A id \in 1 .. written[c] : TimesDispatched(c, id) <= 1
    /\ wire[c] = <<>> => \A id \in 1 .. written[c] : TimesDispatched(c, id) = 1

\* C40: while a session is active, every device of the registry whose
\* handler has finished the registration has an entry in the session store,
\* with a directory in the directory of the session
C40_RegistryInSessionStore ==
  is_session_active =>
    \A c \in Conns :
      (hpc[c] = "loop" /\ hdev[c] \in Registered /\ clients[hdev[c]].socket = c) =>
        /\ hdev[c] \in DOMAIN connected_devices
        /\ connected_devices[hdev[c]].device_dir_path[1] = current_session_dir

====
